---- MODULE Spec2Model ----
(***************************************************************************)
(* Merkle Key Collection signatures of the identity crates: the document   *)
(* signer and verifier (identity-did/src/verifiable/document.rs), the      *)
(* generic Signer / Verifier traits (identity-core signature/traits/       *)
(* core.rs), the Merkle signer (identity-core merkle_key/signer.rs) and    *)
(* the JcsEd25519 suite (identity-core proof/jcs_ed25519.rs).              *)
(*                                                                         *)
(* Bytes are sequences of naturals below 256, text is a sequence of        *)
(* one-character strings.  Key, digest and signature widths are scaled     *)
(* down; the digest and the signature algorithm are stand-ins that keep    *)
(* what the callers rely on (fixed digest width, deterministic output, a   *)
(* signature that is accepted for exactly one (key, message) pair).        *)
(***************************************************************************)
EXTENDS Integers, Sequences, FiniteSets, TLC

\* ---------------------------------------------------------------------------
\* Bounds
\* ---------------------------------------------------------------------------

\* largest key collection size drawn by Init
MaxKeys == 3

\* ---------------------------------------------------------------------------
\* Results
\* ---------------------------------------------------------------------------

Ok == [ok |-> TRUE, err |-> "", val |-> <<>>]

OkVal(v) == [ok |-> TRUE, err |-> "", val |-> v]

Err(e) == [ok |-> FALSE, err |-> e, val |-> <<>>]

\* ---------------------------------------------------------------------------
\* Text and base encodings
\* ---------------------------------------------------------------------------

\* the Bitcoin base58 alphabet used by encode_b58 / decode_b58
B58 ==
  << "1","2","3","4","5","6","7","8","9",
     "A","B","C","D","E","F","G","H","J","K","L","M","N","P","Q","R","S","T","U","V","W","X","Y","Z",
     "a","b","c","d","e","f","g","h","i","j","k","m","n","o","p","q","r","s","t","u","v","w","x","y","z" >>

\* the value of each character of the alphabet
B58Value == [c \in {B58[i] : i \in 1..Len(B58)} |-> (CHOOSE i \in 1..Len(B58) : B58[i] = c) - 1]

IsB58(c) == c \in DOMAIN B58Value

B58Index(c) == B58Value[c]

RECURSIVE Reverse(_)
Reverse(s) == IF s = <<>> THEN <<>> ELSE Reverse(Tail(s)) \o <<Head(s)>>

RECURSIVE LeadingCount(_, _)
LeadingCount(s, x) ==
  IF s = <<>> \/ Head(s) # x THEN 0 ELSE 1 + LeadingCount(Tail(s), x)

Repeat(x, n) == [i \in 1..n |-> x]

\* one step of the base conversion: digits (little endian, base `to`) times
\* `from` plus carry
RECURSIVE MulAdd(_, _, _, _)
MulAdd(digits, carry, from, to) ==
  IF digits = <<>>
    THEN IF carry = 0 THEN <<>> ELSE <<carry % to>> \o MulAdd(<<>>, carry \div to, from, to)
    ELSE LET v == Head(digits) * from + carry
         IN  <<v % to>> \o MulAdd(Tail(digits), v \div to, from, to)

RECURSIVE Convert(_, _, _, _)
Convert(input, digits, from, to) ==
  IF input = <<>> THEN digits
  ELSE Convert(Tail(input), MulAdd(digits, Head(input), from, to), from, to)

encode_b58(bytes) ==
  LET zeros  == LeadingCount(bytes, 0)
      digits == Reverse(Convert(bytes, <<>>, 256, 58))
  IN  Repeat("1", zeros) \o [i \in 1..Len(digits) |-> B58[digits[i] + 1]]

decode_b58(text) ==
  IF \E i \in 1..Len(text) : ~IsB58(text[i])
    THEN Err("DecodeBase58")
    ELSE LET zeros == LeadingCount(text, "1")
             idx   == [i \in 1..Len(text) |-> B58Index(text[i])]
         IN  OkVal(Repeat(0, zeros) \o Reverse(Convert(idx, <<>>, 58, 256)))

\* multibase with the default base (base58btc, code "z")
encode_multibase(bytes) == <<"z">> \o encode_b58(bytes)

decode_multibase(text) ==
  IF text = <<>> THEN OkVal(<<>>)
  ELSE IF Head(text) # "z" THEN Err("DecodeMultibase")
  ELSE LET r == decode_b58(Tail(text))
       IN  IF r.ok THEN r ELSE Err("DecodeMultibase")

\* split on "."
RECURSIVE Split(_, _)
Split(text, cur) ==
  IF text = <<>> THEN <<cur>>
  ELSE IF Head(text) = "." THEN <<cur>> \o Split(Tail(text), <<>>)
  ELSE Split(Tail(text), Append(cur, Head(text)))

split(text) == Split(text, <<>>)

\* the numeric code of a character inside a serialized message
CharCode(c) == IF IsB58(c) THEN B58Index(c) + 1 ELSE IF c = "." THEN 59 ELSE 60

\* ---------------------------------------------------------------------------
\* Digests and the Merkle tree over the public keys of a collection
\* ---------------------------------------------------------------------------

Digests == {"SHA256", "BLAKE2B_256"}

DigestSeed(D) == IF D = "SHA256" THEN 7 ELSE 13

RECURSIVE Mix(_, _, _)
Mix(bytes, pos, acc) ==
  IF bytes = <<>> THEN acc
  ELSE Mix(Tail(bytes), pos + 1, (acc * 31 + Head(bytes) * (pos + 2) + 1) % 251)

\* stand-in for the digest D: deterministic, fixed output width
digest_of(D, bytes) == <<Mix(bytes, DigestSeed(D), DigestSeed(D))>>

digest_width(D) == Len(digest_of(D, <<>>))

\* domain separated leaf and node hashes
hash_leaf(D, leaf) == digest_of(D, <<0>> \o leaf)

hash_node(D, left, right) == digest_of(D, <<1>> \o left \o right)

\* a parent level that moves the last node of an odd level up as it is
RECURSIVE ParentLevelPromote(_, _)
ParentLevelPromote(D, level) ==
  IF level = <<>> THEN <<>>
  ELSE IF Len(level) = 1 THEN <<level[1]>>
  ELSE <<hash_node(D, level[1], level[2])>> \o ParentLevelPromote(D, Tail(Tail(level)))

\* the parent level of a level; an odd level pairs its last node with itself
RECURSIVE ParentLevel(_, _)
ParentLevel(D, level) ==
  IF level = <<>> THEN <<>>
  ELSE IF Len(level) = 1 THEN <<hash_node(D, level[1], level[1])>>
  ELSE <<hash_node(D, level[1], level[2])>> \o ParentLevel(D, Tail(Tail(level)))

RECURSIVE RootOfLevel(_, _)
RootOfLevel(D, level) ==
  IF Len(level) = 1 THEN level[1] ELSE RootOfLevel(D, ParentLevel(D, level))

Leaves(D, publics) == [i \in 1..Len(publics) |-> hash_leaf(D, publics[i])]

\* a sibling path that has no step where the node is the last of an odd level
RECURSIVE PathOfLevelUnpaired(_, _, _)
PathOfLevelUnpaired(D, level, index) ==
  IF Len(level) = 1 THEN <<>>
  ELSE LET step == IF index % 2 = 1 THEN <<[dir |-> "L", hash |-> level[index]]>>
                   ELSE IF index + 2 <= Len(level)
                     THEN <<[dir |-> "R", hash |-> level[index + 2]]>>
                   ELSE <<>>
       IN  step \o PathOfLevelUnpaired(D, ParentLevel(D, level), index \div 2)

\* the sibling path of the node at 0-based position `index` of `level`
RECURSIVE PathOfLevel(_, _, _)
PathOfLevel(D, level, index) ==
  IF Len(level) = 1 THEN <<>>
  ELSE LET node == IF index % 2 = 1
                     THEN [dir |-> "L", hash |-> level[index]]
                     ELSE [dir |-> "R",
                           hash |-> IF index + 2 <= Len(level) THEN level[index + 2]
                                                                ELSE level[index + 1]]
       IN  <<node>> \o PathOfLevel(D, ParentLevel(D, level), index \div 2)

\* Proof<D>
Proof(D, nodes) == [digest |-> D, nodes |-> nodes]

DirByte(dir) == IF dir = "L" THEN 0 ELSE 1

RECURSIVE EncodeNodes(_)
EncodeNodes(nodes) ==
  IF nodes = <<>> THEN <<>>
  ELSE <<DirByte(Head(nodes).dir)>> \o Head(nodes).hash \o EncodeNodes(Tail(nodes))

\* Proof::encode: direction byte then sibling bytes, for each step
proof_encode(proof) == EncodeNodes(proof.nodes)

RECURSIVE DecodeNodes(_, _)
DecodeNodes(bytes, width) ==
  IF bytes = <<>> THEN <<>>
  ELSE <<[dir |-> IF Head(bytes) = 0 THEN "L" ELSE "R",
          hash |-> SubSeq(bytes, 2, 1 + width)]>>
       \o DecodeNodes(SubSeq(bytes, 2 + width, Len(bytes)), width)

proof_decode(D, bytes) ==
  LET width == digest_width(D)
  IN  IF Len(bytes) % (1 + width) # 0 THEN Err("InvalidProofEncoding")
      ELSE IF \E k \in 0..((Len(bytes) \div (1 + width)) - 1) :
                bytes[k * (1 + width) + 1] \notin {0, 1}
        THEN Err("InvalidProofEncoding")
        ELSE OkVal(Proof(D, DecodeNodes(bytes, width)))

RECURSIVE WalkPath(_, _, _)
WalkPath(D, hash, nodes) ==
  IF nodes = <<>> THEN hash
  ELSE WalkPath(D,
                IF Head(nodes).dir = "L" THEN hash_node(D, Head(nodes).hash, hash)
                                         ELSE hash_node(D, hash, Head(nodes).hash),
                Tail(nodes))

\* Proof::verify: recompute the root from the leaf value and the path
proof_verify(proof, leaf, root) ==
  WalkPath(proof.digest, hash_leaf(proof.digest, leaf), proof.nodes) = root

\* the leaf index a path stands for: a sibling on the left is a set bit
RECURSIVE PathIndex(_)
PathIndex(nodes) ==
  IF nodes = <<>> THEN 0
  ELSE (IF Head(nodes).dir = "L" THEN 1 ELSE 0) + 2 * PathIndex(Tail(nodes))

proof_index(proof) == PathIndex(proof.nodes)

\* ---------------------------------------------------------------------------
\* Ed25519 and key collections
\* ---------------------------------------------------------------------------

\* a private key is one byte here; its public key
PublicOf(private) == <<private[1] + 100>>

ValidPrivate(private) == Len(private) = 1 /\ private[1] \in 1..99

ValidPublic(public) == Len(public) = 1 /\ public[1] \in 101..199

\* Ed25519::sign: fails on a key of the wrong length
Ed25519Sign(message, private) ==
  IF ~ValidPrivate(private) THEN Err("InvalidKeyLength")
  ELSE OkVal(PublicOf(private) \o message)

\* Ed25519::verify
Ed25519Verify(message, signature, public) ==
  IF ~ValidPublic(public) THEN Err("InvalidKeyFormat")
  ELSE IF signature # public \o message THEN Err("InvalidSignature")
  ELSE Ok

\* KeyCollection::new_ed25519(count): keys 0..count-1
CollectionPrivate(index) == <<index + 1>>

CollectionPublic(index) == PublicOf(CollectionPrivate(index))

CollectionPublics(count) == [i \in 1..count |-> CollectionPublic(i - 1)]

merkle_root(D, count) == RootOfLevel(D, Leaves(D, CollectionPublics(count)))

merkle_proof(D, count, index) ==
  Proof(D, PathOfLevel(D, Leaves(D, CollectionPublics(count)), index))

\* the single key pair of the Ed25519VerificationKey2018 method
PairPrivate == <<50>>

PairPublic == PublicOf(PairPrivate)

\* ---------------------------------------------------------------------------
\* Merkle key tags
\* ---------------------------------------------------------------------------

TagEd25519 == 0

TagSha256 == 0

TagBlake2b256 == 1

DigestTag(D) == IF D = "SHA256" THEN TagSha256 ELSE TagBlake2b256

\* MerkleKey::encode_key::<D, S>(root)
encode_key(D, S, root) == <<IF S = "Ed25519" THEN TagEd25519 ELSE 255, DigestTag(D)>> \o root

\* MerkleKey::extract_tags
extract_tags(data) ==
  IF Len(data) < 2 THEN Err("InvalidKeyFormat")
  ELSE IF data[1] # TagEd25519 THEN Err("InvalidKeyFormat")
  ELSE IF data[2] \notin {TagSha256, TagBlake2b256} THEN Err("InvalidKeyFormat")
  ELSE OkVal(<<"Ed25519", IF data[2] = TagSha256 THEN "SHA256" ELSE "BLAKE2B_256">>)

\* encode_merkle_key that always writes the SHA-256 tag
encode_merkle_key_sha256(D, root) == encode_key("SHA256", "Ed25519", root)

\* KeyType::encode_merkle_key
encode_merkle_key(D, root) == encode_key(D, "Ed25519", root)

\* ---------------------------------------------------------------------------
\* Signatures and the signed object
\* ---------------------------------------------------------------------------

\* SignatureValue
NoValue == [kind |-> "None", text |-> <<>>]

SignatureValue(kind, text) == [kind |-> kind, text |-> text]

\* SignatureValue::as_signature, an Option
as_signature(value) == IF value.kind = "Signature" THEN <<value.text>> ELSE <<>>

\* Signature::new: no value yet, value visible
Signature(type_, method) ==
  [type_ |-> type_, method |-> method, value |-> NoValue, hidden |-> FALSE]

\* the object `That` of the tests: a data field and an optional proof
That(data) == [data |-> data, proof |-> <<>>]

\* a `data` value whose Serialize implementation fails
Unserializable == 0 - 1

\* the values of the data field: the one of the tests and another one
DataValues == {123, 124}

JcsName == "JcsEd25519Signature2020"

MerkleName == "MerkleKeySignature2021"

Fragments ==
  <<"#key-1", "#key-collection", "#short", "#bad-digest", "#bad-signature", "#sign-0", "#sign-1",
    "#auth">>

NameCode(name) == IF name = JcsName THEN 1 ELSE IF name = MerkleName THEN 2 ELSE 3

FragmentCode(f) ==
  IF \E i \in 1..Len(Fragments) : Fragments[i] = f
    THEN CHOOSE i \in 1..Len(Fragments) : Fragments[i] = f
    ELSE 0

KindCode(kind) == IF kind = "Jws" THEN 61 ELSE IF kind = "Proof" THEN 62 ELSE 63

\* the serialized signature: type and verificationMethod, and the value
\* unless there is none or it is hidden
SerializeSignature(sig) ==
  <<99, NameCode(sig.type_), FragmentCode(sig.method)>>
    \o (IF sig.hidden \/ sig.value.kind = "None" THEN <<>>
        ELSE <<KindCode(sig.value.kind)>>
               \o [i \in 1..Len(sig.value.text) |-> CharCode(sig.value.text[i])])

\* ToJson::to_jcs of the object: the data field, then the proof if present
to_jcs(that) ==
  IF that.data = Unserializable THEN Err("EncodeJSON")
  ELSE OkVal(<<that.data>>
               \o (IF that.proof = <<>> THEN <<>> ELSE SerializeSignature(that.proof[1])))

\* the outcome of an operation on the object: the result, the object after
\* the call, the trait operations that ran and the message that was
\* canonicalized for the signature algorithm (empty if none was)
Outcome(res, that, calls, msg) == [res |-> res, that |-> that, calls |-> calls, msg |-> msg]

Failed(err, that) == Outcome(Err(err), that, <<>>, <<>>)

\* a result together with the canonical message it was computed over
Logged(res, msg) == [ok |-> res.ok, err |-> res.err, val |-> res.val, msg |-> msg]

\* ---------------------------------------------------------------------------
\* Signature suites: "Jcs" is JcsEd25519<Ed25519>, a digest D stands for
\* MerkleSigner<D, Ed25519> / MerkleVerifier<D, Ed25519>
\* ---------------------------------------------------------------------------

\* SigningKey<D>
SigningKey(public, private, proof) == [public |-> public, private |-> private, proof |-> proof]

\* VerificationKey
VerificationKey(public, revocation) == [public |-> public, revocation |-> revocation]

\* JcsEd25519 as Signer
JcsSign(data, private) ==
  LET message == to_jcs(data)
  IN  IF ~message.ok THEN Logged(message, <<>>)
      ELSE LET signature == Ed25519Sign(message.val, private)
           IN  IF ~signature.ok THEN Logged(signature, message.val)
               ELSE Logged(OkVal(SignatureValue("Signature", encode_b58(signature.val))),
                           message.val)

\* JcsEd25519 verify that reads the text of any variant of SignatureValue
JcsVerifyAnyVariant(data, value, public) ==
  LET signature == decode_b58(value.text)
  IN  IF ~signature.ok THEN Logged(signature, <<>>)
      ELSE LET message == to_jcs(data)
           IN  IF ~message.ok THEN Logged(message, <<>>)
               ELSE Logged(Ed25519Verify(message.val, signature.val, public), message.val)

\* JcsEd25519 as Verifier
JcsVerify(data, value, public) ==
  IF as_signature(value) = <<>> THEN Logged(Err("InvalidProofValue"), <<>>)
  ELSE LET signature == decode_b58(as_signature(value)[1])
       IN  IF ~signature.ok THEN Logged(signature, <<>>)
           ELSE LET message == to_jcs(data)
                IN  IF ~message.ok THEN Logged(message, <<>>)
                    ELSE Logged(Ed25519Verify(message.val, signature.val, public), message.val)

\* MerkleSigningKey::public, MerkleSigningKey::proof of a SigningKey
skey_public(skey) == encode_b58(skey.public)

skey_proof(skey) == encode_b58(proof_encode(skey.proof))

\* MerkleSign with the proof written before the public key
MerkleSignProofFirst(data, skey) ==
  LET message == to_jcs(data)
  IN  IF ~message.ok THEN Logged(message, <<>>)
      ELSE LET signature == Ed25519Sign(message.val, skey.private)
           IN  IF ~signature.ok THEN Logged(signature, message.val)
               ELSE Logged(OkVal(SignatureValue("Signature",
                                   skey_proof(skey) \o <<".">> \o skey_public(skey) \o <<".">>
                                     \o encode_b58(signature.val))),
                           message.val)

\* MerkleSigner as Signer
MerkleSign(data, skey) ==
  LET message == to_jcs(data)
  IN  IF ~message.ok THEN Logged(message, <<>>)
      ELSE LET signature == Ed25519Sign(message.val, skey.private)
           IN  IF ~signature.ok THEN Logged(signature, message.val)
               ELSE Logged(OkVal(SignatureValue("Signature",
                                   skey_public(skey) \o <<".">> \o skey_proof(skey) \o <<".">>
                                     \o encode_b58(signature.val))),
                           message.val)

\* MerkleVerifier<D, Ed25519> as Verifier
MerkleVerify(D, data, value, vkey) ==
  IF as_signature(value) = <<>> THEN Logged(Err("InvalidProofValue"), <<>>)
  ELSE LET parts == split(as_signature(value)[1])
       IN  IF Len(parts) # 3 THEN Logged(Err("InvalidProofValue"), <<>>)
           ELSE LET target == decode_b58(parts[1])
                    pbytes == decode_b58(parts[2])
                    sbytes == decode_b58(parts[3])
                IN  IF ~target.ok \/ ~pbytes.ok \/ ~sbytes.ok
                      THEN Logged(Err("InvalidProofValue"), <<>>)
                    ELSE LET proof == proof_decode(D, pbytes.val)
                         IN  IF ~proof.ok THEN Logged(proof, <<>>)
                             ELSE IF ~proof_verify(proof.val, target.val,
                                                   SubSeq(vkey.public, 3, Len(vkey.public)))
                               THEN Logged(Err("InvalidSignature"), <<>>)
                             ELSE IF vkey.revocation # <<>>
                                     /\ proof_index(proof.val) \in vkey.revocation[1]
                               THEN Logged(Err("InvalidSignature"), <<>>)
                             ELSE LET message == to_jcs(data)
                                  IN  IF ~message.ok THEN Logged(message, <<>>)
                                      ELSE IF ~Ed25519Verify(message.val, sbytes.val, target.val).ok
                                        THEN Logged(Err("InvalidSignature"), message.val)
                                        ELSE Logged(Ok, message.val)

SuiteName(suite) == IF suite = "Jcs" THEN JcsName ELSE MerkleName

SuiteSign(suite, data, secret) ==
  IF suite = "Jcs" THEN JcsSign(data, secret) ELSE MerkleSign(data, secret)

SuiteVerify(suite, data, value, public) ==
  IF suite = "Jcs" THEN JcsVerify(data, value, public)
  ELSE MerkleVerify(suite, data, value, public)

\* create_signature that keeps a proof the object already carries
create_signature_keep(suite, data, method, secret) ==
  LET fresh == IF data.proof = <<>>
                 THEN [data EXCEPT !.proof = <<Signature(SuiteName(suite), method)>>]
                 ELSE [data EXCEPT !.proof = <<[data.proof[1] EXCEPT !.type_ = SuiteName(suite),
                                                                     !.method = method]>>]
      value == SuiteSign(suite, fresh, secret)
  IN  IF ~value.ok THEN Outcome(Err(value.err), fresh, <<"create_signature">>, value.msg)
      ELSE Outcome(Ok, [fresh EXCEPT !.proof = <<[fresh.proof[1] EXCEPT !.value = value.val]>>],
                   <<"create_signature">>, value.msg)

\* Signer::create_signature
create_signature(suite, data, method, secret) ==
  LET fresh == [data EXCEPT !.proof = <<Signature(SuiteName(suite), method)>>]
      value == SuiteSign(suite, fresh, secret)
  IN  IF ~value.ok THEN Outcome(Err(value.err), fresh, <<"create_signature">>, value.msg)
      ELSE Outcome(Ok, [fresh EXCEPT !.proof = <<[fresh.proof[1] EXCEPT !.value = value.val]>>],
                   <<"create_signature">>, value.msg)

\* verify_signature that drops the result of Self::verify
verify_signature_unchecked(suite, data, public) ==
  IF data.proof = <<>> THEN Outcome(Err("MissingSignature"), data, <<"verify_signature">>, <<>>)
  ELSE IF data.proof[1].type_ # SuiteName(suite)
    THEN Outcome(Err("InvalidProofValue"), data, <<"verify_signature">>, <<>>)
  ELSE LET hide == [data EXCEPT !.proof = <<[data.proof[1] EXCEPT !.hidden = TRUE]>>]
           res  == SuiteVerify(suite, hide, hide.proof[1].value, public)
       IN  Outcome(Ok, [hide EXCEPT !.proof = <<[hide.proof[1] EXCEPT !.hidden = FALSE]>>],
                   <<"verify_signature">>, res.msg)

\* Verifier::verify_signature
verify_signature(suite, data, public) ==
  IF data.proof = <<>> THEN Outcome(Err("MissingSignature"), data, <<"verify_signature">>, <<>>)
  ELSE IF data.proof[1].type_ # SuiteName(suite)
    THEN Outcome(Err("InvalidProofValue"), data, <<"verify_signature">>, <<>>)
  ELSE LET hide == [data EXCEPT !.proof = <<[data.proof[1] EXCEPT !.hidden = TRUE]>>]
           res  == SuiteVerify(suite, hide, hide.proof[1].value, public)
       IN  IF ~res.ok THEN Outcome(Err(res.err), hide, <<"verify_signature">>, res.msg)
           ELSE Outcome(Ok, [hide EXCEPT !.proof = <<[hide.proof[1] EXCEPT !.hidden = FALSE]>>],
                        <<"verify_signature">>, res.msg)

\* ---------------------------------------------------------------------------
\* The DID document, its signer and its verifier
\* ---------------------------------------------------------------------------

VARIABLES
  document,     \* the verification methods of the DID document, by fragment
  total,        \* the size of the key collection behind "#key-collection"
  digest,       \* the digest D of its Merkle tree
  revocation,   \* the revocation bitset of "#key-collection", an Option
  that,         \* the data object that is signed and verified
  last,         \* the last operation, its arguments and what it returned
  signed,       \* the last successful sign of the object and what it left, an Option;
                \* none once a failed sign has overwritten the proof
  tree,         \* a Merkle tree over public keys with the last proof taken from it
                \* and the last verification of that proof, an Option
  jcs,          \* the last JcsEd25519 signature of a value and its last verification
  did,          \* the last text given to RunnercDID::parse and what it returned
  url,          \* a DIDUrl and the result of the last join on it
  rdoc,         \* RunnercDocuments with the last operation on them
  client,       \* the content store behind the Client and its publish call in progress
  shared        \* an object shared by two callers of verify_signature, and where they are

vars ==
  <<document, total, digest, revocation, that, last, signed, tree, jcs, did, url, rdoc, client,
    shared>>

\* the variables of document signatures and the variables of the other parts
signing == <<document, total, digest, revocation, that, last, signed>>

others == <<tree, jcs, did, url, rdoc, client, shared>>

\* what the operations of one part leave alone
notTree == <<signing, jcs, did, url, rdoc, client, shared>>

notJcs == <<signing, tree, did, url, rdoc, client, shared>>

notDid == <<signing, tree, jcs, url, rdoc, client, shared>>

notUrl == <<signing, tree, jcs, did, rdoc, client, shared>>

notDoc == <<signing, tree, jcs, did, url, client, shared>>

notClient == <<signing, tree, jcs, did, url, rdoc, shared>>

notShared == <<signing, tree, jcs, did, url, rdoc, client>>

\* nothing has been built, parsed or signed in the other parts
OthersIdle ==
  /\ tree = <<>>
  /\ jcs = <<>>
  /\ did = <<>>
  /\ url = <<>>
  /\ rdoc = <<>>
  /\ client = <<>>
  /\ shared = <<>>

\* MethodData::new_b58, MethodData::new_multibase
new_b58(data) == [format |-> "PublicKeyBase58", text |-> encode_b58(data)]

new_multibase(data) == [format |-> "PublicKeyMultibase", text |-> encode_multibase(data)]

\* MethodData::try_decode
try_decode(key_data) ==
  IF key_data.format = "PublicKeyMultibase"
    THEN LET r == decode_multibase(key_data.text)
         IN  IF r.ok THEN r ELSE Err("InvalidKeyDataMultibase")
  ELSE IF key_data.format = "PublicKeyBase58"
    THEN LET r == decode_b58(key_data.text)
         IN  IF r.ok THEN r ELSE Err("InvalidKeyDataBase58")
  ELSE Err("InvalidKeyData")

\* VerificationMethod
VerificationMethod(id, key_type, key_data) ==
  [id |-> id, key_type |-> key_type, key_data |-> key_data]

\* CoreDocument::try_resolve_method, an Option
resolve_method(query) == IF query \in DOMAIN document THEN <<document[query]>> ELSE <<>>

\* Revocation::revocation of a method
method_revocation(method) == IF method.id = "#key-collection" THEN revocation ELSE <<>>

\* DocumentSigner::merkle_key_sign::<X, D, Ed25519>
merkle_key_sign(D, data, method, private, merkle_key) ==
  IF merkle_key = <<>> THEN Failed("InvalidKeyFormat", data)
  ELSE IF merkle_key[1].proof.digest # D THEN Failed("InvalidKeyFormat", data)
  ELSE create_signature(D, data, method,
                        SigningKey(merkle_key[1].public, private, merkle_key[1].proof))

\* DocumentSigner::sign
DocumentSigner_sign(data, query, private, merkle_key) ==
  IF query = <<>> THEN Failed("MethodNotFound", data)
  ELSE IF resolve_method(query[1]) = <<>> THEN Failed("QueryMethodNotFound", data)
  ELSE LET method == resolve_method(query[1])[1]
       IN  IF method.key_type = "Ed25519VerificationKey2018"
             THEN create_signature("Jcs", data, method.id, private)
           ELSE LET bytes == try_decode(method.key_data)
                IN  IF ~bytes.ok THEN Failed(bytes.err, data)
                    ELSE LET tags == extract_tags(bytes.val)
                         IN  IF ~tags.ok THEN Failed(tags.err, data)
                             ELSE IF tags.val = <<"Ed25519", "SHA256">>
                               THEN merkle_key_sign("SHA256", data, method.id, private, merkle_key)
                             ELSE IF tags.val = <<"Ed25519", "BLAKE2B_256">>
                               THEN merkle_key_sign("BLAKE2B_256", data, method.id, private, merkle_key)
                             ELSE Failed("InvalidMethodType", data)

\* merkle_key_verify that never sets the revocation of the verification key
merkle_key_verify_unrevoked(D, data, method, bytes) ==
  verify_signature(D, data, VerificationKey(bytes, <<>>))

\* merkle_key_verify that rejects a method with revoked leaves on its own
merkle_key_verify_revoked(D, data, method, bytes) ==
  IF method_revocation(method) # <<>> /\ method_revocation(method)[1] # {}
    THEN Failed("InvalidMethodRevocation", data)
    ELSE verify_signature(D, data, VerificationKey(bytes, method_revocation(method)))

\* merkle_key_verify::<X, D, Ed25519, U>
merkle_key_verify(D, data, method, bytes) ==
  verify_signature(D, data, VerificationKey(bytes, method_revocation(method)))

\* do_verify that falls back to SHA-256 when the tags are not recognized
do_verify_fallback(method, data) ==
  LET bytes == try_decode(method.key_data)
  IN  IF ~bytes.ok THEN Failed(bytes.err, data)
      ELSE IF method.key_type = "Ed25519VerificationKey2018"
        THEN verify_signature("Jcs", data, bytes.val)
      ELSE LET tags == extract_tags(bytes.val)
           IN  IF tags.ok /\ tags.val = <<"Ed25519", "BLAKE2B_256">>
                 THEN merkle_key_verify("BLAKE2B_256", data, method, bytes.val)
               ELSE merkle_key_verify("SHA256", data, method, bytes.val)

\* DocumentVerifier::do_verify
do_verify(method, data) ==
  LET bytes == try_decode(method.key_data)
  IN  IF ~bytes.ok THEN Failed(bytes.err, data)
      ELSE IF method.key_type = "Ed25519VerificationKey2018"
        THEN verify_signature("Jcs", data, bytes.val)
      ELSE LET tags == extract_tags(bytes.val)
           IN  IF ~tags.ok THEN Failed(tags.err, data)
               ELSE IF tags.val = <<"Ed25519", "SHA256">>
                 THEN merkle_key_verify("SHA256", data, method, bytes.val)
               ELSE IF tags.val = <<"Ed25519", "BLAKE2B_256">>
                 THEN merkle_key_verify("BLAKE2B_256", data, method, bytes.val)
               ELSE Failed("InvalidMethodType", data)

\* a verify that accepts an object without a proof
DocumentVerifier_verify_unsigned(data) ==
  IF data.proof = <<>> THEN Outcome(Ok, data, <<>>, <<>>)
  ELSE IF resolve_method(data.proof[1].method) = <<>> THEN Failed("QueryMethodNotFound", data)
  ELSE do_verify(resolve_method(data.proof[1].method)[1], data)

\* DocumentVerifier::verify
DocumentVerifier_verify(data) ==
  IF data.proof = <<>> THEN Failed("MissingSignature", data)
  ELSE IF resolve_method(data.proof[1].method) = <<>> THEN Failed("QueryMethodNotFound", data)
  ELSE do_verify(resolve_method(data.proof[1].method)[1], data)

\* ---------------------------------------------------------------------------
\* The state machine
\* ---------------------------------------------------------------------------

\* the methods of a document over a collection of `count` keys with digest D,
\* key data written by `encode` (new_b58 or new_multibase)
Methods(D, count, format) ==
  LET encode(bytes) == IF format = "PublicKeyBase58" THEN new_b58(bytes)
                                                     ELSE new_multibase(bytes)
      root == merkle_root(D, count)
  IN  [f \in {"#key-1", "#key-collection", "#short", "#bad-digest", "#bad-signature"} |->
         IF f = "#key-1"
           THEN VerificationMethod(f, "Ed25519VerificationKey2018", encode(PairPublic))
         ELSE IF f = "#key-collection"
           THEN VerificationMethod(f, "MerkleKeyCollection2021", encode(encode_merkle_key(D, root)))
         ELSE IF f = "#short"
           THEN VerificationMethod(f, "MerkleKeyCollection2021", encode(<<TagEd25519>>))
         ELSE IF f = "#bad-digest"
           THEN VerificationMethod(f, "MerkleKeyCollection2021", encode(<<TagEd25519, 9>> \o root))
         ELSE VerificationMethod(f, "MerkleKeyCollection2021", encode(<<9, TagSha256>> \o root))]

\* largest number of revoked leaves
MaxRevoked == 1

Init ==
  /\ total \in 1..MaxKeys
  /\ digest \in Digests
  /\ \E format \in {"PublicKeyBase58", "PublicKeyMultibase"} :
       document = Methods(digest, total, format)
  /\ revocation = <<>>
  /\ that = That(123)
  /\ last = [op |-> "new", method |-> "", res |-> Ok, calls |-> <<>>, msg |-> <<>>,
              over |-> FALSE]
  /\ signed = <<>>
  /\ OthersIdle

\* DocumentSigner::merkle_key((public, proof)), an Option
MerkleKey(public, proof) == <<[public |-> public, proof |-> proof]>>

\* document.signer(private).method(query).merkle_key(..).sign(&mut that)
Sign(query, private, merkle_key) ==
  LET out == DocumentSigner_sign(that, query, private, merkle_key)
  IN  /\ that' = out.that
      /\ last' = [op |-> "sign", method |-> IF query = <<>> THEN "" ELSE query[1],
                  res |-> out.res, calls |-> out.calls, msg |-> out.msg,
                  over |-> that.proof # <<>>]
      /\ signed' = IF out.res.ok
                     THEN <<[that |-> out.that, private |-> private, merkle_key |-> merkle_key,
                             msg |-> out.msg]>>
                     ELSE IF out.that = that THEN signed ELSE <<>>
      /\ UNCHANGED <<document, total, digest, revocation, others>>

\* document.verifier().verify(&that)
Verify ==
  LET out == DocumentVerifier_verify(that)
  IN  /\ that' = out.that
      /\ last' = [op |-> "verify",
                  method |-> IF that.proof = <<>> THEN "" ELSE that.proof[1].method,
                  res |-> out.res, calls |-> out.calls, msg |-> out.msg,
                  over |-> FALSE]
      /\ UNCHANGED <<document, total, digest, revocation, signed, others>>

\* the caller changes the data field of the object
SetData(d) ==
  /\ that.data # d
  /\ that' = [that EXCEPT !.data = d]
  /\ last' = [op |-> "set_data", method |-> "", res |-> Ok, calls |-> <<>>, msg |-> <<>>,
              over |-> FALSE]
  /\ UNCHANGED <<document, total, digest, revocation, signed, others>>

\* the owner of the method marks leaf `index` revoked
Revoke(index) ==
  /\ IF revocation = <<>> THEN TRUE
     ELSE index \notin revocation[1] /\ Cardinality(revocation[1]) < MaxRevoked
  /\ revocation' = IF revocation = <<>> THEN <<{index}>> ELSE <<revocation[1] \cup {index}>>
  /\ last' = [op |-> "revoke", method |-> "", res |-> Ok, calls |-> <<>>, msg |-> <<>>,
              over |-> FALSE]
  /\ UNCHANGED <<document, total, digest, that, signed, others>>

\* sign calls that fail before a key is used: no method, an unknown method,
\* malformed Merkle key data
SignRejected ==
  \E query \in {<<>>, <<"#missing">>, <<"#short">>, <<"#bad-digest">>, <<"#bad-signature">>} :
    Sign(query, PairPrivate, <<>>)

\* sign calls with the Ed25519 method: its own key, another key, a key of
\* the wrong length
SignPair ==
  \E private \in {PairPrivate, CollectionPrivate(0), <<>>} : Sign(<<"#key-1">>, private, <<>>)

\* sign calls with leaf `index` of the collection: its private key, public key
\* and proof
SignLeaf ==
  \E index \in 0..(total - 1) :
    Sign(<<"#key-collection">>, CollectionPrivate(index),
         MerkleKey(CollectionPublic(index), merkle_proof(digest, total, index)))

\* sign calls with the collection method and inputs that do not belong
\* together: kind 1 the proof of another leaf, kind 2 the private key of
\* another pair
SignMismatched ==
  \E kind \in 1..2 :
    Sign(<<"#key-collection">>,
         IF kind = 2 THEN PairPrivate ELSE CollectionPrivate(0),
         MerkleKey(CollectionPublic(0),
                   merkle_proof(digest, total, IF kind = 1 THEN total - 1 ELSE 0)))

\* sign calls with the collection method that cannot sign: kind 1 a private
\* key of the wrong length, kind 2 a proof for the other digest, kind 3 no
\* Merkle key
SignIncomplete ==
  \E kind \in 1..3 :
    LET other == CHOOSE X \in Digests : X # digest
    IN  Sign(<<"#key-collection">>,
             IF kind = 1 THEN <<>> ELSE CollectionPrivate(0),
             IF kind = 3 THEN <<>>
             ELSE MerkleKey(CollectionPublic(0),
                            merkle_proof(IF kind = 2 THEN other ELSE digest, total, 0)))

\* the caller replaces the text of the signature value: kind 1 drops the last
\* segment, 2 appends a fourth segment, 3 puts a character outside the base58
\* alphabet first, 4 puts it last, 5 empties the text, 6 drops the separators
SetValue(kind) ==
  /\ that.proof # <<>>
  /\ that.proof[1].value.kind = "Signature"
  /\ Len(split(that.proof[1].value.text)) = 3
  /\ \A i \in 1..Len(that.proof[1].value.text) :
       that.proof[1].value.text[i] = "." \/ IsB58(that.proof[1].value.text[i])
  /\ LET text  == that.proof[1].value.text
         parts == split(text)
         new   == IF kind = 1 THEN parts[1] \o <<".">> \o parts[2]
                  ELSE IF kind = 2 THEN text \o <<".", "2">>
                  ELSE IF kind = 3 THEN <<"0">> \o text
                  ELSE IF kind = 4 THEN text \o <<"l">>
                  ELSE IF kind = 5 THEN <<>>
                  ELSE parts[1] \o parts[2] \o parts[3]
     IN  that' = [that EXCEPT !.proof = <<[that.proof[1] EXCEPT !.value.text = new]>>]
  /\ last' = [op |-> "set_value", method |-> "", res |-> Ok, calls |-> <<>>, msg |-> <<>>,
              over |-> FALSE]
  /\ UNCHANGED <<document, total, digest, revocation, signed, others>>

\* the caller names another verification method in the proof of the object
SetMethod(fragment) ==
  /\ that.proof # <<>>
  /\ that.proof[1].method # fragment
  /\ that' = [that EXCEPT !.proof = <<[that.proof[1] EXCEPT !.method = fragment]>>]
  /\ last' = [op |-> "set_method", method |-> "", res |-> Ok, calls |-> <<>>, msg |-> <<>>,
              over |-> FALSE]
  /\ UNCHANGED <<document, total, digest, revocation, signed, others>>

\* signing with the keys of the document, verification and changes of the data
Next ==
  \/ SignPair
  \/ SignLeaf
  \/ SignMismatched
  \/ SignIncomplete
  \/ Verify
  \/ \E d \in DataValues \cup {Unserializable} : SetData(d)

Spec == Init /\ [][Next]_vars

\* signatures of the collection, changes of the data and revocation
NextRevocation ==
  \/ SignLeaf
  \/ SignMismatched
  \/ Verify
  \/ \E d \in DataValues : SetData(d)
  \/ \E index \in 0..(total - 1) : Revoke(index)

SpecRevocation == Init /\ [][NextRevocation]_vars

\* signatures of the collection whose text is changed afterwards
NextValue ==
  \/ SignLeaf
  \/ Verify
  \/ \E kind \in 1..6 : SetValue(kind)

SpecValue == Init /\ [][NextValue]_vars

\* signatures whose proof is pointed at another method of the document
NextMethod ==
  \/ SignRejected
  \/ SignLeaf
  \/ Verify
  \/ \E fragment \in DOMAIN document : SetMethod(fragment)

SpecMethod == Init /\ [][NextMethod]_vars


\* ---------------------------------------------------------------------------
\* Merkle trees and proofs on their own
\* ---------------------------------------------------------------------------

\* the variables of document signatures at rest
SigningIdle ==
  /\ total = 1
  /\ digest = "SHA256"
  /\ document = Methods("SHA256", 1, "PublicKeyBase58")
  /\ revocation = <<>>
  /\ that = That(123)
  /\ last = [op |-> "new", method |-> "", res |-> Ok, calls |-> <<>>, msg |-> <<>>,
              over |-> FALSE]
  /\ signed = <<>>

\* the state before any call, with one fixed document
Idle == SigningIdle /\ OthersIdle

\* a tree over the public keys of a collection of `count` keys; with `repeat`
\* the last key is a leaf twice
BuildTree(D, count, repeat) ==
  LET publics == IF repeat THEN CollectionPublics(count) \o <<CollectionPublic(count - 1)>>
                           ELSE CollectionPublics(count)
  IN  /\ tree' = <<[digest |-> D, publics |-> publics,
                    root |-> RootOfLevel(D, Leaves(D, publics)),
                    index |-> 0, proof |-> <<>>, key |-> 0, result |-> <<>>]>>
      /\ UNCHANGED notTree

\* merkle_proof(index) on the tree
MerkleProof(index) ==
  /\ tree # <<>>
  /\ index < Len(tree[1].publics)
  /\ tree' = <<[tree[1] EXCEPT
                  !.index = index,
                  !.proof = <<Proof(tree[1].digest,
                                    PathOfLevel(tree[1].digest,
                                                Leaves(tree[1].digest, tree[1].publics),
                                                index))>>,
                  !.key = 0,
                  !.result = <<>>]>>
  /\ UNCHANGED notTree

\* proof.verify(root, public key `key`) with the last proof
ProofVerify(key) ==
  /\ tree # <<>>
  /\ tree[1].proof # <<>>
  /\ key < Len(tree[1].publics)
  /\ tree' = <<[tree[1] EXCEPT
                  !.key = key,
                  !.result = <<proof_verify(tree[1].proof[1], tree[1].publics[key + 1],
                                            tree[1].root)>>]>>
  /\ UNCHANGED notTree

NextTree ==
  \/ \E D \in Digests, count \in 1..MaxKeys, repeat \in BOOLEAN : BuildTree(D, count, repeat)
  \/ \E index \in 0..MaxKeys : MerkleProof(index)
  \/ \E key \in 0..MaxKeys : ProofVerify(key)

SpecTree == Idle /\ [][NextTree]_vars

\* ---------------------------------------------------------------------------
\* The JcsEd25519 suite on its own
\* ---------------------------------------------------------------------------

\* the private keys of the key pairs that sign and verify here
JcsPrivates == {PairPrivate, CollectionPrivate(0), CollectionPrivate(1)}

\* a signature value changed by the caller: kind 1 as it is, 2 the first
\* character replaced by another of the alphabet, 3 the last character
\* dropped, 4 the text "IOTA", 5 the same text as the Proof variant, 6 as the
\* Jws variant, 7 SignatureValue::None
Altered(value, kind) ==
  IF kind = 1 THEN value
  ELSE IF kind = 2
    THEN SignatureValue("Signature",
                        <<IF value.text[1] = "2" THEN "3" ELSE "2">> \o Tail(value.text))
  ELSE IF kind = 3
    THEN SignatureValue("Signature", SubSeq(value.text, 1, Len(value.text) - 1))
  ELSE IF kind = 4 THEN SignatureValue("Signature", <<"I", "O", "T", "A">>)
  ELSE IF kind = 5 THEN SignatureValue("Proof", value.text)
  ELSE IF kind = 6 THEN SignatureValue("Jws", value.text)
  ELSE NoValue

\* Signer::sign(&data, private) of JcsEd25519 on a value without proof
JcsSignData(d, private) ==
  LET out == JcsSign(That(d), private)
  IN  /\ out.ok
      /\ jcs' = <<[data |-> d, private |-> private, value |-> out.val, check |-> <<>>]>>
      /\ UNCHANGED notJcs

\* Verifier::verify(&data, &signature, public) of JcsEd25519
JcsVerifyData(d, kind, private) ==
  /\ jcs # <<>>
  /\ LET value == Altered(jcs[1].value, kind)
         out   == JcsVerify(That(d), value, PublicOf(private))
     IN  jcs' = <<[jcs[1] EXCEPT !.check = <<[data |-> d, kind |-> kind, value |-> value,
                                              public |-> PublicOf(private),
                                              res |-> [ok |-> out.ok, err |-> out.err,
                                                       val |-> out.val]]>>]>>
  /\ UNCHANGED notJcs

NextJcs ==
  \/ \E d \in DataValues, private \in JcsPrivates : JcsSignData(d, private)
  \/ \E d \in DataValues, kind \in 1..7, private \in JcsPrivates : JcsVerifyData(d, kind, private)

SpecJcs == Idle /\ [][NextJcs]_vars

\* ---------------------------------------------------------------------------
\* RunnercDID: parsing, validity and normalization
\* ---------------------------------------------------------------------------

\* a panic of the program, as a result that is neither Ok nor an error value
Panic(message) == [ok |-> FALSE, err |-> "panic", val |-> message]

Lower ==
  {"a", "b", "c", "d", "e", "f", "g", "h", "i", "j", "k", "l", "m",
   "n", "o", "p", "q", "r", "s", "t", "u", "v", "w", "x", "y", "z"}

Upper ==
  {"A", "B", "C", "D", "E", "F", "G", "H", "I", "J", "K", "L", "M",
   "N", "O", "P", "Q", "R", "S", "T", "U", "V", "W", "X", "Y", "Z"}

Digit == {"0", "1", "2", "3", "4", "5", "6", "7", "8", "9"}

\* str::split(sep): the parts between the separators, at least one part
RECURSIVE SplitOn(_, _, _)
SplitOn(text, sep, cur) ==
  IF text = <<>> THEN <<cur>>
  ELSE IF Head(text) = sep THEN <<cur>> \o SplitOn(Tail(text), sep, <<>>)
  ELSE SplitOn(Tail(text), sep, Append(cur, Head(text)))

str_split(text, sep) == SplitOn(text, sep, <<>>)

\* the parts written with the separator between them
RECURSIVE Join(_, _)
Join(parts, sep) ==
  IF parts = <<>> THEN <<>>
  ELSE IF Len(parts) = 1 THEN parts[1]
  ELSE parts[1] \o <<sep>> \o Join(Tail(parts), sep)

\* str::find(sep) and str::rfind(sep): 1-based position, 0 if there is none
str_find(text, sep) ==
  IF \E i \in 1..Len(text) : text[i] = sep
    THEN CHOOSE i \in 1..Len(text) : text[i] = sep /\ \A j \in 1..(i - 1) : text[j] # sep
    ELSE 0

str_rfind(text, sep) ==
  IF \E i \in 1..Len(text) : text[i] = sep
    THEN CHOOSE i \in 1..Len(text) :
           text[i] = sep /\ \A j \in (i + 1)..Len(text) : text[j] # sep
    ELSE 0

SCHEME == <<"d", "i", "d">>

METHOD == <<"r", "u", "n", "n", "e", "r", "c">>

DEFAULT_NETWORK == <<"m", "a", "i", "n">>

BLAKE2B_256_LEN == 32

\* CoreDID::parse: did:<method>:<method id>, the method of lower case letters
\* and digits, the method id of idchars and ":" with a last segment that is
\* not empty
CoreDID_parse(input) ==
  LET parts == str_split(input, ":")
  IN  IF Len(parts) < 3 THEN Err("InvalidDID")
      ELSE IF parts[1] # SCHEME THEN Err("InvalidDID")
      ELSE IF parts[2] = <<>> \/ \E i \in 1..Len(parts[2]) : parts[2][i] \notin Lower \cup Digit
        THEN Err("InvalidDID")
      ELSE IF parts[Len(parts)] = <<>> THEN Err("InvalidDID")
      ELSE IF \E k \in 3..Len(parts) : \E i \in 1..Len(parts[k]) :
                parts[k][i] \notin Lower \cup Upper \cup Digit \cup {".", "-", "_"}
        THEN Err("InvalidDID")
      ELSE OkVal([method |-> parts[2], method_id |-> Join(SubSeq(parts, 3, Len(parts)), ":")])

\* NetworkName::validate_network_name: 1 to 6 lower case letters or digits
MaxNetworkNameLen == 6

validate_network_name(name) ==
  IF name # <<>> /\ Len(name) <= MaxNetworkNameLen
       /\ \A i \in 1..Len(name) : name[i] \in Lower \cup Digit
    THEN Ok
    ELSE Err("InvalidNetworkName")

\* Segments::count
segments_count(id) == Len(str_split(id, ":"))

\* Segments::network
segments_network(id) ==
  IF segments_count(id) = 1 THEN OkVal(DEFAULT_NETWORK)
  ELSE IF segments_count(id) = 2 THEN OkVal(SubSeq(id, 1, str_find(id, ":") - 1))
  ELSE Panic("Segments::network called for invalid RunnercDID DID")

\* Segments::tag
segments_tag(id) ==
  IF segments_count(id) = 1 THEN OkVal(id)
  ELSE IF segments_count(id) = 2 THEN OkVal(SubSeq(id, str_rfind(id, ":") + 1, Len(id)))
  ELSE Panic("Segments::tag called for invalid RunnercDID DID")

\* RunnercDID::check_method
check_method(core) == IF core.method # METHOD THEN Err("InvalidMethodName") ELSE Ok

\* RunnercDID::check_method_id
check_method_id(core) ==
  LET segments == str_split(core.method_id, ":")
  IN  IF segments = <<>> \/ Len(segments) > 3 THEN Err("InvalidMethodId")
      ELSE LET mid == decode_b58(segments[Len(segments)])
           IN  IF ~mid.ok THEN Err(mid.err)
               ELSE IF Len(mid.val) = BLAKE2B_256_LEN THEN Ok
               ELSE Err("InvalidMethodId")

\* RunnercDID::check_network
check_network(core) ==
  LET network_name == segments_network(core.method_id)
  IN  IF ~network_name.ok THEN network_name
      ELSE validate_network_name(network_name.val)

\* RunnercDID::check_validity
check_validity(core) ==
  IF ~check_method(core).ok THEN check_method(core)
  ELSE IF ~check_method_id(core).ok THEN check_method_id(core)
  ELSE check_network(core)

\* a normalize that leaves the default network segment in place
normalize_keep(core) == core

\* RunnercDID::normalize
normalize(core) ==
  IF segments_count(core.method_id) = 2
       /\ segments_network(core.method_id).val = DEFAULT_NETWORK
    THEN [core EXCEPT !.method_id = segments_tag(core.method_id).val]
    ELSE core

\* RunnercDID::try_from_owned
try_from_owned(core) ==
  IF ~check_validity(core).ok THEN check_validity(core)
  ELSE OkVal(normalize(core))

\* RunnercDID::parse
RunnercDID_parse(input) ==
  IF ~CoreDID_parse(input).ok THEN CoreDID_parse(input)
  ELSE try_from_owned(CoreDID_parse(input).val)

\* RunnercDID::network_str, RunnercDID::tag
network_str(runnerc) == segments_network(runnerc.method_id)

tag(runnerc) == segments_tag(runnerc.method_id)

\* the texts that are parsed: did:<method>:<segments>:<tag>
DidMethods == {METHOD, <<"f", "o", "o">>}

DidNetworks ==
  {DEFAULT_NETWORK, <<"d", "e", "v">>, <<"c", "u", "s", "t", "o", "m">>, <<>>,
   <<"B", "a", "d", "-", "N", "e", "t">>}

\* base58 texts of 32 bytes, of 31 bytes, of 2 bytes, and a text that is not
\* base58
DidTags ==
  {Repeat("1", 32), Repeat("1", 31) \o <<"2">>, Repeat("1", 31), <<"1", "2", "3">>, <<"0">>}

\* most segments in front of the tag
MaxNetworks == 2

RECURSIVE SeqsUpTo(_, _)
SeqsUpTo(S, n) ==
  IF n = 0 THEN {<<>>}
  ELSE SeqsUpTo(S, n - 1) \cup {Append(q, x) : q \in {r \in SeqsUpTo(S, n - 1) : Len(r) = n - 1}, x \in S}

DidText(method, networks, tagtext) == Join(<<SCHEME, method>> \o networks \o <<tagtext>>, ":")

\* RunnercDID::parse(input), once
ParseDid(method, networks, tagtext) ==
  /\ did = <<>>
  /\ did' = <<[method |-> method, networks |-> networks, tagtext |-> tagtext,
               res |-> RunnercDID_parse(DidText(method, networks, tagtext)),
               network_str |-> <<>>, tag |-> <<>>]>>
  /\ UNCHANGED notDid

\* did.network_str() on the parsed RunnercDID
NetworkStr ==
  /\ did # <<>>
  /\ did[1].res.ok
  /\ did[1].network_str = <<>>
  /\ did' = <<[did[1] EXCEPT !.network_str = <<network_str(did[1].res.val)>>]>>
  /\ UNCHANGED notDid

\* did.tag() on the parsed RunnercDID
Tag ==
  /\ did # <<>>
  /\ did[1].res.ok
  /\ did[1].tag = <<>>
  /\ did' = <<[did[1] EXCEPT !.tag = <<tag(did[1].res.val)>>]>>
  /\ UNCHANGED notDid

NextDid ==
  \/ \E method \in DidMethods, networks \in SeqsUpTo(DidNetworks, MaxNetworks),
        tagtext \in DidTags : ParseDid(method, networks, tagtext)
  \/ NetworkStr
  \/ Tag

SpecDid == Idle /\ [][NextDid]_vars

\* ---------------------------------------------------------------------------
\* DIDUrl: a DID with a relative URL of path, query and fragment
\* ---------------------------------------------------------------------------

\* is_char_path, is_char_query, is_char_fragment
is_char_path(ch) ==
  ch \in Lower \cup Upper \cup Digit
         \cup {".", "-", "_", ":", "~", "!", "$", "&", "'", "(", ")", "*", "+", ",", ";", "=",
               "@", "/"}

is_char_query(ch) == is_char_path(ch) \/ ch = "?"

is_char_fragment(ch) == is_char_path(ch) \/ ch = "?"

\* position of the first character of `text` that is in `stops`, Len + 1 if none
FirstOf(text, stops) ==
  IF \E i \in 1..Len(text) : text[i] \in stops
    THEN CHOOSE i \in 1..Len(text) :
           text[i] \in stops /\ \A j \in 1..(i - 1) : text[j] \notin stops
    ELSE Len(text) + 1

\* the path, the query after "?" and the fragment after "#" of a relative
\* reference; query and fragment are Options
ParseRelative(text) ==
  LET p    == FirstOf(text, {"?", "#"})
      rest == SubSeq(text, p, Len(text))
      h    == FirstOf(rest, {"#"})
  IN  [path     |-> SubSeq(text, 1, p - 1),
       query    |-> IF rest # <<>> /\ rest[1] = "?" THEN <<SubSeq(rest, 2, h - 1)>> ELSE <<>>,
       fragment |-> IF h <= Len(rest) THEN <<SubSeq(rest, h + 1, Len(rest))>> ELSE <<>>]

\* BaseDIDUrl::parse: the DID up to the first "/", "?" or "#", then the
\* relative reference
BaseDIDUrl_parse(text) ==
  LET p    == FirstOf(text, {"/", "?", "#"})
      core == CoreDID_parse(SubSeq(text, 1, p - 1))
      rel  == ParseRelative(SubSeq(text, p, Len(text)))
  IN  IF ~core.ok THEN core
      ELSE OkVal([did |-> SubSeq(text, 1, p - 1), path |-> rel.path, query |-> rel.query,
                  fragment |-> rel.fragment])

\* BaseDIDUrl::join: reference resolution of a relative reference
BaseDIDUrl_join(base, segment) ==
  LET rel == ParseRelative(segment)
  IN  OkVal([did      |-> base.did,
             path     |-> IF rel.path = <<>> THEN base.path ELSE rel.path,
             query    |-> IF rel.path = <<>> /\ rel.query = <<>> THEN base.query ELSE rel.query,
             fragment |-> rel.fragment])

\* RelativeDIDUrl::set_path, set_query, set_fragment on an Option; the result
\* is the stored Option
set_path(value) ==
  IF value = <<>> \/ value[1] = <<>> THEN OkVal(<<>>)
  ELSE IF value[1][1] = "/" /\ \A i \in 1..Len(value[1]) : is_char_path(value[1][i])
    THEN OkVal(value)
  ELSE Err("InvalidPath")

set_query(value) ==
  IF value = <<>> \/ value[1] = <<>> THEN OkVal(<<>>)
  ELSE LET s == IF value[1][1] = "?" THEN Tail(value[1]) ELSE value[1]
       IN  IF s = <<>> \/ \E i \in 1..Len(s) : ~is_char_query(s[i]) THEN Err("InvalidQuery")
           ELSE OkVal(<<<<"?">> \o s>>)

set_fragment(value) ==
  IF value = <<>> \/ value[1] = <<>> THEN OkVal(<<>>)
  ELSE LET s == IF value[1][1] = "#" THEN Tail(value[1]) ELSE value[1]
       IN  IF s = <<>> \/ \E i \in 1..Len(s) : ~is_char_fragment(s[i])
             THEN Err("InvalidFragment")
           ELSE OkVal(<<<<"#">> \o s>>)

\* a from_base_did_url that does not take the fragment over
from_base_did_url_nofragment(base) ==
  IF ~set_path(<<base.path>>).ok THEN set_path(<<base.path>>)
  ELSE IF ~set_query(base.query).ok THEN set_query(base.query)
  ELSE OkVal([did |-> base.did, path |-> set_path(<<base.path>>).val,
              query |-> set_query(base.query).val, fragment |-> <<>>])

\* DIDUrl::from_base_did_url
from_base_did_url(base) ==
  IF ~set_path(<<base.path>>).ok THEN set_path(<<base.path>>)
  ELSE IF ~set_query(base.query).ok THEN set_query(base.query)
  ELSE IF ~set_fragment(base.fragment).ok THEN set_fragment(base.fragment)
  ELSE OkVal([did |-> base.did, path |-> set_path(<<base.path>>).val,
              query |-> set_query(base.query).val,
              fragment |-> set_fragment(base.fragment).val])

\* Display of an Option<String>, of a DIDUrl
OrEmpty(option) == IF option = <<>> THEN <<>> ELSE option[1]

DIDUrl_to_string(u) == u.did \o OrEmpty(u.path) \o OrEmpty(u.query) \o OrEmpty(u.fragment)

\* DIDUrl::parse
DIDUrl_parse(input) ==
  IF ~BaseDIDUrl_parse(input).ok THEN BaseDIDUrl_parse(input)
  ELSE from_base_did_url(BaseDIDUrl_parse(input).val)

\* DIDUrl::join
DIDUrl_join(u, segment) ==
  IF segment = <<>> \/ segment[1] \notin {"/", "?", "#"} THEN Err("InvalidPath")
  ELSE LET base == BaseDIDUrl_parse(DIDUrl_to_string(u))
       IN  IF ~base.ok THEN base
           ELSE IF ~BaseDIDUrl_join(base.val, segment).ok THEN BaseDIDUrl_join(base.val, segment)
           ELSE from_base_did_url(BaseDIDUrl_join(base.val, segment).val)

\* DID URLs that are parsed, the parts a joined segment is made of, and a
\* segment without a leading delimiter
UrlInputs ==
  {<<"d", "i", "d", ":", "e", "x", "a", "m", "p", "l", "e", ":", "1">>,
   <<"d", "i", "d", ":", "e", "x", "a", "m", "p", "l", "e", ":", "1", "/", "a", "?", "q", "#", "f">>}

SegmentPaths == {<<>>, <<"/", "a">>, <<"/", "b">>, <<"/", "{">>}

SegmentQueries == {<<>>, <<"?", "q">>, <<"?", "r">>, <<"?", "{">>}

SegmentFragments == {<<>>, <<"#", "f">>, <<"#", "g">>, <<"#", "{">>}

NoDelimiter == <<"a", "/", "b">>

\* DIDUrl::parse(input), once
ParseUrl(input) ==
  /\ url = <<>>
  /\ DIDUrl_parse(input).ok
  /\ url' = <<[cur |-> DIDUrl_parse(input).val, joined |-> <<>>]>>
  /\ UNCHANGED notUrl

\* url.clone().join(segment); the joined URL replaces the URL on success
Join_(path, query, fragment, segment) ==
  /\ url # <<>>
  /\ LET res == DIDUrl_join(url[1].cur, segment)
     IN  url' = <<[cur    |-> IF res.ok THEN res.val ELSE url[1].cur,
                   joined |-> <<[path |-> path, query |-> query, fragment |-> fragment,
                                 segment |-> segment, before |-> url[1].cur, res |-> res]>>]>>
  /\ UNCHANGED notUrl

JoinParts(path, query, fragment) == Join_(path, query, fragment, path \o query \o fragment)

JoinNoDelimiter == Join_(<<>>, <<>>, <<>>, NoDelimiter)

NextUrl ==
  \/ \E input \in UrlInputs : ParseUrl(input)
  \/ \E path \in SegmentPaths, query \in SegmentQueries, fragment \in SegmentFragments :
       JoinParts(path, query, fragment)
  \/ JoinNoDelimiter

SpecUrl == Idle /\ [][NextUrl]_vars

\* ---------------------------------------------------------------------------
\* RunnercDocument: a DID document that is signed by its own methods
\* ---------------------------------------------------------------------------

\* RunnercDID::encode_key: base58 of the BLAKE2b-256 digest of the key
RunnercDID_encode_key(key) == encode_b58(digest_of("BLAKE2B_256", key))

\* MessageId::null, MessageId::is_null
MessageId_null == <<>>

is_null(id) == id = <<>>

\* a verification method of the document with its verification relationship
ScopedMethod(id, key_type, key_data, scope) ==
  [id |-> id, key_type |-> key_type, key_data |-> key_data, scope |-> scope]

DEFAULT_METHOD_FRAGMENT == "#sign-0"

\* RunnercDocument::new(keypair): the DID of the public key, one capability
\* invocation method "#sign-0", no previous message, no proof
RunnercDocument_new(public) ==
  [tag |-> RunnercDID_encode_key(public),
   methods |-> (DEFAULT_METHOD_FRAGMENT :>
                  ScopedMethod(DEFAULT_METHOD_FRAGMENT, "Ed25519VerificationKey2018",
                               new_b58(public), "CapabilityInvocation")),
   previous_message_id |-> MessageId_null,
   properties |-> 0,
   proof |-> <<>>]

\* the second key pair
OtherPrivate == <<51>>

OtherPublic == PublicOf(OtherPrivate)

\* the methods that are inserted into a document: a second signing method of
\* another key, an authentication method of the key of the DID, and a Merkle
\* key collection
Inserted(fragment) ==
  IF fragment = "#sign-1"
    THEN ScopedMethod(fragment, "Ed25519VerificationKey2018", new_b58(OtherPublic),
                      "CapabilityInvocation")
  ELSE IF fragment = "#auth"
    THEN ScopedMethod(fragment, "Ed25519VerificationKey2018", new_b58(PairPublic),
                      "Authentication")
  ELSE ScopedMethod(fragment, "MerkleKeyCollection2021",
                    new_b58(encode_merkle_key("SHA256", merkle_root("SHA256", 1))),
                    "CapabilityInvocation")

InsertedFragments == {"#sign-1", "#auth", "#key-collection"}

\* the serialized document without its proof: the methods, the previous
\* message id and the properties
DocumentCode(doc) ==
  100 + (IF "#sign-1" \in DOMAIN doc.methods THEN 1 ELSE 0)
      + (IF "#auth" \in DOMAIN doc.methods THEN 2 ELSE 0)
      + (IF "#key-collection" \in DOMAIN doc.methods THEN 4 ELSE 0)
      + (IF is_null(doc.previous_message_id) THEN 0 ELSE 8)
      + 16 * doc.properties

\* the document as the object that is serialized, signed and verified
Signable(doc) == [data |-> DocumentCode(doc), proof |-> doc.proof]

\* CoreDocument::try_resolve_method, CoreDocument::try_resolve_method_with_scope
try_resolve_method(doc, query) ==
  IF query \in DOMAIN doc.methods THEN OkVal(doc.methods[query]) ELSE Err("QueryMethodNotFound")

try_resolve_method_with_scope(doc, query, scope) ==
  IF query \in DOMAIN doc.methods /\ doc.methods[query].scope = scope
    THEN OkVal(doc.methods[query])
    ELSE Err("QueryMethodNotFound")

\* RunnercDocument::check_signing_method
check_signing_method(method) ==
  IF method.key_type = "Ed25519VerificationKey2018" THEN Ok
  ELSE Err("InvalidDocumentSigningMethodType")

\* the result of an operation on the document and the document after it
DocOutcome(res, doc) == [res |-> res, doc |-> doc]

\* RunnercDocument::sign_self
sign_self(doc, private, query) ==
  LET method == try_resolve_method_with_scope(doc, query, "CapabilityInvocation")
  IN  IF ~method.ok THEN DocOutcome(method, doc)
      ELSE IF ~check_signing_method(method.val).ok
        THEN DocOutcome(check_signing_method(method.val), doc)
      ELSE IF method.val.key_type = "Ed25519VerificationKey2018"
        THEN LET out == create_signature("Jcs", Signable(doc), method.val.id, private)
             IN  DocOutcome(out.res, [doc EXCEPT !.proof = out.that.proof])
      ELSE DocOutcome(Err("InvalidDocumentSigningMethodType"), doc)

\* verify_document that resolves the method in any verification relationship
verify_document_any_scope(signed_doc, signer_doc) ==
  IF signed_doc.proof = <<>> THEN Err("MissingSignature")
  ELSE LET method == try_resolve_method(signer_doc, signed_doc.proof[1].method)
       IN  IF ~method.ok THEN method
           ELSE IF ~try_decode(method.val.key_data).ok THEN try_decode(method.val.key_data)
           ELSE IF method.val.key_type = "Ed25519VerificationKey2018"
             THEN verify_signature("Jcs", Signable(signed_doc), try_decode(method.val.key_data).val).res
           ELSE Err("InvalidMethodType")

\* RunnercDocument::verify_document
verify_document(signed_doc, signer_doc) ==
  IF signed_doc.proof = <<>> THEN Err("MissingSignature")
  ELSE LET method == try_resolve_method_with_scope(signer_doc, signed_doc.proof[1].method,
                                                   "CapabilityInvocation")
       IN  IF ~method.ok THEN method
           ELSE IF ~try_decode(method.val.key_data).ok THEN try_decode(method.val.key_data)
           ELSE IF method.val.key_type = "Ed25519VerificationKey2018"
             THEN verify_signature("Jcs", Signable(signed_doc), try_decode(method.val.key_data).val).res
           ELSE Err("InvalidMethodType")

\* RunnercDocument::verify_self_signed
verify_self_signed(doc) == verify_document(doc, doc)

\* verify_root_document that does not compare the DID tag with the key
verify_root_document_any_tag(doc) ==
  IF ~is_null(doc.previous_message_id) THEN Err("InvalidRootDocument")
  ELSE IF doc.proof = <<>> THEN Err("MissingSignature")
  ELSE LET method == try_resolve_method(doc, doc.proof[1].method)
       IN  IF ~method.ok THEN method
           ELSE IF ~try_decode(method.val.key_data).ok THEN try_decode(method.val.key_data)
           ELSE verify_self_signed(doc)

\* RunnercDocument::verify_root_document
verify_root_document(doc) ==
  IF ~is_null(doc.previous_message_id) THEN Err("InvalidRootDocument")
  ELSE IF doc.proof = <<>> THEN Err("MissingSignature")
  ELSE LET method == try_resolve_method(doc, doc.proof[1].method)
       IN  IF ~method.ok THEN method
           ELSE IF ~try_decode(method.val.key_data).ok THEN try_decode(method.val.key_data)
           ELSE IF doc.tag # RunnercDID_encode_key(try_decode(method.val.key_data).val)
             THEN Err("InvalidRootDocument")
           ELSE verify_self_signed(doc)

\* DocumentSigner::sign of the signer of `doc`
signer_sign(doc, data, query, private, merkle_key) ==
  LET method == try_resolve_method(doc, query)
  IN  IF ~method.ok THEN Failed(method.err, data)
      ELSE IF method.val.key_type = "Ed25519VerificationKey2018"
        THEN create_signature("Jcs", data, method.val.id, private)
      ELSE LET bytes == try_decode(method.val.key_data)
           IN  IF ~bytes.ok THEN Failed(bytes.err, data)
               ELSE LET tags == extract_tags(bytes.val)
                    IN  IF ~tags.ok THEN Failed(tags.err, data)
                        ELSE IF tags.val = <<"Ed25519", "SHA256">>
                          THEN merkle_key_sign("SHA256", data, method.val.id, private, merkle_key)
                        ELSE IF tags.val = <<"Ed25519", "BLAKE2B_256">>
                          THEN merkle_key_sign("BLAKE2B_256", data, method.val.id, private,
                                               merkle_key)
                        ELSE Failed("InvalidMethodType", data)

\* the key of the collection of "#key-collection" with its proof
CollectionKey == MerkleKey(CollectionPublic(0), merkle_proof("SHA256", 1, 0))

\* the document of the second key pair, which signs for others
OtherDocument == RunnercDocument_new(OtherPublic)

DocPrivates == {PairPrivate, OtherPrivate}

DocQueries == {DEFAULT_METHOD_FRAGMENT} \cup InsertedFragments

MessageIds == {MessageId_null, <<"m", "1">>}

NoDiff == <<>>

\* what the last operation on the document was given and what it returned
DocLast(op, query, private, before, signer_doc, res) ==
  <<[op |-> op, query |-> query, private |-> private, before |-> before, signer |-> signer_doc,
     res |-> res]>>

\* RunnercDocument::new(&keypair) of the first key pair
NewDocument ==
  /\ rdoc = <<>>
  /\ rdoc' = <<[doc |-> RunnercDocument_new(PairPublic), diff |-> NoDiff, last |-> <<>>]>>
  /\ UNCHANGED notDoc

\* RunnercDocument::insert_method(method, scope)
InsertMethod(fragment) ==
  /\ rdoc # <<>>
  /\ fragment \notin DOMAIN rdoc[1].doc.methods
  /\ rdoc' = <<[rdoc[1] EXCEPT !.doc.methods = @ @@ (fragment :> Inserted(fragment)),
                               !.last = <<>>]>>
  /\ UNCHANGED notDoc

\* RunnercDocument::set_previous_message_id(value)
SetPreviousMessageId(value) ==
  /\ rdoc # <<>>
  /\ rdoc' = <<[rdoc[1] EXCEPT !.doc.previous_message_id = value, !.last = <<>>]>>
  /\ UNCHANGED notDoc

\* document.sign_self(private, query)
SignSelf(private, query) ==
  /\ rdoc # <<>>
  /\ LET out == sign_self(rdoc[1].doc, private, query)
     IN  rdoc' = <<[rdoc[1] EXCEPT !.doc = out.doc,
                                   !.last = DocLast("sign_self", query, private, rdoc[1].doc,
                                                    rdoc[1].doc, out.res)]>>
  /\ UNCHANGED notDoc

\* RunnercDocument::verify_document(&document, &signer)
VerifyDocument(signer_doc) ==
  /\ rdoc # <<>>
  /\ rdoc' = <<[rdoc[1] EXCEPT !.last = DocLast("verify_document", "", <<>>, rdoc[1].doc,
                                                signer_doc,
                                                verify_document(rdoc[1].doc, signer_doc))]>>
  /\ UNCHANGED notDoc

\* RunnercDocument::verify_root_document(&document)
VerifyRootDocument ==
  /\ rdoc # <<>>
  /\ rdoc' = <<[rdoc[1] EXCEPT !.last = DocLast("verify_root_document", "", <<>>, rdoc[1].doc,
                                                rdoc[1].doc,
                                                verify_root_document(rdoc[1].doc))]>>
  /\ UNCHANGED notDoc

\* let mut copy = document.clone();
\* document.signer(private).method(query).merkle_key(..).sign(&mut copy);
\* the signed copy replaces the document; a key collection method signs with
\* the key of the collection
SignCopy(private, query) ==
  /\ rdoc # <<>>
  /\ LET out == IF query = "#key-collection"
                  THEN signer_sign(rdoc[1].doc, Signable(rdoc[1].doc), query,
                                   CollectionPrivate(0), CollectionKey)
                  ELSE signer_sign(rdoc[1].doc, Signable(rdoc[1].doc), query, private, <<>>)
     IN  rdoc' = <<[rdoc[1] EXCEPT !.doc.proof = out.that.proof,
                                   !.last = DocLast("sign", query, private, rdoc[1].doc,
                                                    rdoc[1].doc, out.res)]>>
  /\ UNCHANGED notDoc

NextDocument ==
  \/ NewDocument
  \/ \E fragment \in InsertedFragments : InsertMethod(fragment)
  \/ \E value \in MessageIds : SetPreviousMessageId(value)
  \/ \E private \in DocPrivates, query \in DocQueries : SignSelf(private, query)
  \/ \E private \in DocPrivates, query \in DocQueries : SignCopy(private, query)
  \/ VerifyDocument(rdoc[1].doc)
  \/ VerifyDocument(OtherDocument)
  \/ VerifyRootDocument

SpecDocument == Idle /\ [][NextDocument]_vars

\* ---------------------------------------------------------------------------
\* DiffMessage: a signed change of a RunnercDocument, and its merge
\* ---------------------------------------------------------------------------

\* the change a DiffMessage carries: the new properties of the document, or
\* text that is not the JSON of a document diff
Change(properties) == [wellformed |-> TRUE, properties |-> properties]

Malformed == [wellformed |-> FALSE, properties |-> 0]

\* DiffMessage::new(current, updated, message_id): the change from `current`
\* to `updated`, without a proof
DiffMessage_new(current, updated, message_id) ==
  [tag |-> current.tag, diff |-> Change(updated.properties),
   previous_message_id |-> message_id, proof |-> <<>>]

\* the serialized DiffMessage without its proof
DiffCode(diff) ==
  200 + (IF diff.diff.wellformed THEN diff.diff.properties ELSE 2)
      + (IF is_null(diff.previous_message_id) THEN 0 ELSE 4)

\* the DiffMessage as the object that is serialized, signed and verified
DiffSignable(diff) == [data |-> DiffCode(diff), proof |-> diff.proof]

\* DiffMessage::merge(&self, document): the document with the change applied
DiffMessage_merge(diff, doc) ==
  IF ~diff.diff.wellformed THEN Err("DecodeJSON")
  ELSE OkVal([doc EXCEPT !.properties = diff.diff.properties])

\* RunnercDocument::sign_data
sign_data(doc, data, private, query) == signer_sign(doc, data, query, private, <<>>)

\* RunnercDocument::diff, a Result of a DiffMessage
RunnercDocument_diff(doc, other, message_id, private, query) ==
  LET diff   == DiffMessage_new(doc, other, message_id)
      method == try_resolve_method_with_scope(doc, query, "CapabilityInvocation")
      out    == sign_data(doc, DiffSignable(diff), private, query)
  IN  IF ~method.ok THEN method
      ELSE IF ~out.res.ok THEN out.res
      ELSE OkVal([diff EXCEPT !.proof = out.that.proof])

\* DocumentVerifier::verify_with_scope of the verifier of `doc`
verify_with_scope(doc, data, scope) ==
  IF data.proof = <<>> THEN Err("MissingSignature")
  ELSE LET method == try_resolve_method_with_scope(doc, data.proof[1].method, scope)
       IN  IF ~method.ok THEN method ELSE do_verify(method.val, data).res

\* RunnercDocument::verify_data_with_scope
verify_data_with_scope(doc, data, scope) == verify_with_scope(doc, data, scope)

\* RunnercDocument::verify_diff
verify_diff(doc, diff) == verify_data_with_scope(doc, DiffSignable(diff), "CapabilityInvocation")

\* a merge that does not verify the signature of the diff
merge_unverified(doc, diff) ==
  IF ~DiffMessage_merge(diff, doc).ok THEN DocOutcome(DiffMessage_merge(diff, doc), doc)
  ELSE DocOutcome(Ok, DiffMessage_merge(diff, doc).val)

\* RunnercDocument::merge
merge(doc, diff) ==
  IF ~verify_diff(doc, diff).ok THEN DocOutcome(verify_diff(doc, diff), doc)
  ELSE IF ~DiffMessage_merge(diff, doc).ok THEN DocOutcome(DiffMessage_merge(diff, doc), doc)
  ELSE DocOutcome(Ok, DiffMessage_merge(diff, doc).val)

\* the properties a document is updated to
PropertyValues == {0, 1}

\* let diff = document.diff(&updated, message_id, private, query)?;
\* a failed diff leaves the DiffMessage at hand
Diff(properties, message_id, private, query) ==
  /\ rdoc # <<>>
  /\ LET res == RunnercDocument_diff(rdoc[1].doc, [rdoc[1].doc EXCEPT !.properties = properties],
                                     message_id, private, query)
     IN  rdoc' = <<[rdoc[1] EXCEPT !.diff = IF res.ok THEN <<res.val>> ELSE @,
                                   !.last = DocLast("diff", query, private, rdoc[1].doc,
                                                    rdoc[1].doc,
                                                    IF res.ok THEN Ok ELSE res)]>>
  /\ UNCHANGED notDoc

\* a DiffMessage that was not made by diff: any change, malformed or not,
\* signed by the signer of the document with any of its methods (none if the
\* signer fails)
SignDiff(change, private, query) ==
  /\ rdoc # <<>>
  /\ LET diff == [tag |-> rdoc[1].doc.tag, diff |-> change,
                  previous_message_id |-> MessageId_null, proof |-> <<>>]
         out  == sign_data(rdoc[1].doc, DiffSignable(diff), private, query)
     IN  rdoc' = <<[rdoc[1] EXCEPT !.diff = <<[diff EXCEPT !.proof = out.that.proof]>>,
                                   !.last = DocLast("sign", query, private, rdoc[1].doc,
                                                    rdoc[1].doc, out.res)]>>
  /\ UNCHANGED notDoc

\* document.merge(&diff)
Merge ==
  /\ rdoc # <<>>
  /\ rdoc[1].diff # <<>>
  /\ LET out == merge(rdoc[1].doc, rdoc[1].diff[1])
     IN  rdoc' = <<[rdoc[1] EXCEPT !.doc = out.doc,
                                   !.last = DocLast("merge", "", <<>>, rdoc[1].doc, rdoc[1].doc,
                                                    out.res)]>>
  /\ UNCHANGED notDoc

NextMerge ==
  \/ NewDocument
  \/ \E fragment \in InsertedFragments : InsertMethod(fragment)
  \/ \E properties \in PropertyValues, message_id \in MessageIds, private \in DocPrivates,
        query \in DocQueries : Diff(properties, message_id, private, query)
  \/ \E change \in {Change(p) : p \in PropertyValues} \cup {Malformed}, private \in DocPrivates,
        query \in DocQueries : SignDiff(change, private, query)
  \/ Merge

SpecMerge == Idle /\ [][NextMerge]_vars

\* ---------------------------------------------------------------------------
\* Client: publishing JSON to the content store
\* ---------------------------------------------------------------------------

\* the content id the store gives to a value
Cid(json) == encode_b58(json)

\* Receipt::new(network, Message { message_id: cid, payload: Some(cid), .. })
Receipt(cid) == [message_id |-> cid, payload |-> <<cid>>]

\* Client::publish_json once Client::set_value has returned `cid_option`
publish_json(cid_option) ==
  IF cid_option # <<>> THEN OkVal(Receipt(cid_option[1])) ELSE Err("DIDNotFound")

\* Client::publish_json_with_retry once its publish_json has returned
\* `published`: interval and max_attempts are not read
publish_json_with_retry(published, interval, max_attempts) ==
  IF ~published.ok THEN published ELSE OkVal(published.val)

\* the objects that are published, the intervals and the numbers of attempts
\* that are asked for (None is the default)
PublishedData == {That(d) : d \in DataValues \cup {Unserializable}}

Intervals == {<<>>, <<1>>}

MaxAttempts == {<<>>, <<1>>, <<3>>}

\* Client::new()
NewClient ==
  /\ client = <<>>
  /\ client' = <<[store |-> {}, call |-> <<>>]>>
  /\ UNCHANGED notClient

\* client.publish_json_with_retry(index, data, interval, max_attempts) up to
\* the await of set_value in publish_json: data.to_json().unwrap() panics on
\* data that does not serialize, otherwise the value is on its way to the store
Publish(data, interval, max_attempts) ==
  /\ client # <<>>
  /\ IF client[1].call = <<>> THEN TRUE ELSE client[1].call[1].pc = "done"
  /\ client' = <<[client[1] EXCEPT !.call =
                    <<[data |-> data, interval |-> interval, max_attempts |-> max_attempts,
                       attempts |-> IF to_jcs(data).ok THEN 1 ELSE 0,
                       pc |-> IF to_jcs(data).ok THEN "set_value" ELSE "done",
                       res |-> IF to_jcs(data).ok THEN Ok ELSE Panic("unwrap")]>>]>>
  /\ UNCHANGED notClient

\* the store has added the value: set_value returns Some(cid), publish_json
\* and publish_json_with_retry return
Added ==
  /\ client # <<>>
  /\ client[1].call # <<>>
  /\ client[1].call[1].pc = "set_value"
  /\ LET call == client[1].call[1]
         cid  == Cid(to_jcs(call.data).val)
     IN  client' = <<[store |-> client[1].store \cup {cid},
                      call  |-> <<[call EXCEPT !.pc = "done",
                                               !.res = publish_json_with_retry(
                                                         publish_json(<<cid>>), call.interval,
                                                         call.max_attempts)]>>]>>
  /\ UNCHANGED notClient

\* the store has failed to add the value: set_value returns None, publish_json
\* and publish_json_with_retry return
AddFailed ==
  /\ client # <<>>
  /\ client[1].call # <<>>
  /\ client[1].call[1].pc = "set_value"
  /\ LET call == client[1].call[1]
     IN  client' = <<[client[1] EXCEPT !.call =
                        <<[call EXCEPT !.pc = "done",
                                       !.res = publish_json_with_retry(
                                                 publish_json(<<>>), call.interval,
                                                 call.max_attempts)]>>]>>
  /\ UNCHANGED notClient

NextClient ==
  \/ NewClient
  \/ \E data \in PublishedData, interval \in Intervals, max_attempts \in MaxAttempts :
       Publish(data, interval, max_attempts)
  \/ Added
  \/ AddFailed

SpecClient == Idle /\ [][NextClient]_vars

\* ---------------------------------------------------------------------------
\* Verifier::verify_signature, statement by statement, by two callers that
\* share the object; the hidden flag of the Signature is written through the
\* shared reference
\* ---------------------------------------------------------------------------

Callers == {1, 2}

\* how the shared object was made: signed, signed and then changed, or never
\* signed
SharedKinds == {"signed", "changed", "unsigned"}

SharedObject(data, private, kind) ==
  IF kind = "unsigned" THEN That(data)
  ELSE IF kind = "signed" THEN create_signature("Jcs", That(data), "#key-1", private).that
  ELSE [create_signature("Jcs", That(data), "#key-1", private).that EXCEPT !.data = data + 1]

\* the object is made and handed to both callers, who verify it with `public`
Share(data, private, kind, public) ==
  /\ shared = <<>>
  /\ shared' = <<[first |-> SharedObject(data, private, kind),
                  object |-> SharedObject(data, private, kind),
                  public |-> public,
                  pc |-> [p \in Callers |-> "idle"],
                  res |-> [p \in Callers |-> Ok]]>>
  /\ UNCHANGED notShared

\* caller p moves to `pc` with the object as `object`; `res` is what it returns
\* if it returns
Step(p, pc, object, res) ==
  /\ shared' = <<[shared[1] EXCEPT !.pc[p] = pc, !.object = object, !.res[p] = res]>>
  /\ UNCHANGED notShared

\* verify_signature up to hide_value: try_signature and the check of the name
Enter(p) ==
  /\ shared # <<>>
  /\ shared[1].pc[p] = "idle"
  /\ IF shared[1].object.proof = <<>>
       THEN Step(p, "done", shared[1].object, Err("MissingSignature"))
     ELSE IF shared[1].object.proof[1].type_ # SuiteName("Jcs")
       THEN Step(p, "done", shared[1].object, Err("InvalidProofValue"))
     ELSE Step(p, "hide", shared[1].object, Ok)

\* signature.hide_value()
HideValue(p) ==
  /\ shared # <<>>
  /\ shared[1].pc[p] = "hide"
  /\ Step(p, "verify", [shared[1].object EXCEPT !.proof[1].hidden = TRUE], Ok)

\* Self::verify(&data, signature.value(), public)?: the object is serialized
\* as it is now
VerifyValue(p) ==
  /\ shared # <<>>
  /\ shared[1].pc[p] = "verify"
  /\ LET res == SuiteVerify("Jcs", shared[1].object, shared[1].object.proof[1].value,
                            shared[1].public)
     IN  IF res.ok THEN Step(p, "show", shared[1].object, Ok)
         ELSE Step(p, "done", shared[1].object, Err(res.err))

\* signature.show_value(); Ok(())
ShowValue(p) ==
  /\ shared # <<>>
  /\ shared[1].pc[p] = "show"
  /\ Step(p, "done", [shared[1].object EXCEPT !.proof[1].hidden = FALSE], Ok)

NextShared ==
  \/ \E data \in DataValues, private \in DocPrivates, kind \in SharedKinds,
        public \in {PairPublic, OtherPublic} : Share(data, private, kind, public)
  \/ \E p \in Callers : Enter(p)
  \/ \E p \in Callers : HideValue(p)
  \/ \E p \in Callers : VerifyValue(p)
  \/ \E p \in Callers : ShowValue(p)

SpecShared == Idle /\ [][NextShared]_vars

\* ---------------------------------------------------------------------------
\* Properties
\* ---------------------------------------------------------------------------

\* the object carries the proof that the last successful sign wrote
SameProof ==
  /\ signed # <<>>
  /\ that.proof # <<>>
  /\ [that.proof[1] EXCEPT !.hidden = FALSE] = signed[1].that.proof[1]

\* the data field is as it was signed
SameData == signed # <<>> /\ that.data = signed[1].that.data

\* the last successful sign used leaf `index`: its private key, its public
\* key and its proof, with the collection method
SignedByLeaf(index) ==
  /\ signed # <<>>
  /\ signed[1].that.proof[1].method = "#key-collection"
  /\ signed[1].private = CollectionPrivate(index)
  /\ signed[1].merkle_key =
       MerkleKey(CollectionPublic(index), merkle_proof(digest, total, index))

Revoked(index) == revocation # <<>> /\ index \in revocation[1]

\* C1: after DocumentSigner::sign with private key i, public key i and
\* merkle_proof(i), DocumentVerifier::verify returns Ok on the unmodified
\* object and Err on an object whose data was modified after signing
C1_SignVerifyAgreement ==
  \A index \in 0..(total - 1) :
    (last.op = "verify" /\ SignedByLeaf(index) /\ SameProof /\ ~Revoked(index))
      => (last.res.ok <=> SameData)

C1_Witness ==
  /\ last.op = "verify"
  /\ last.res.ok
  /\ SameProof
  /\ SameData
  /\ total > 1
  /\ SignedByLeaf(total - 1)
  /\ document["#key-collection"].key_data.format = "PublicKeyMultibase"

\* C2: with leaf i in the revocation bitset of the method, verification of a
\* signature of leaf i returns Err although root, proof and signature are
\* valid; a signature of a leaf that is not in the bitset verifies Ok
C2_Revocation ==
  \A index \in 0..(total - 1) :
    (last.op = "verify" /\ SignedByLeaf(index) /\ SameProof /\ SameData)
      => (last.res.ok <=> ~Revoked(index))

C2_Witness ==
  /\ last.op = "verify"
  /\ ~last.res.ok
  /\ SameProof
  /\ SameData
  /\ \E index \in 0..(total - 1) : SignedByLeaf(index) /\ Revoked(index)

\* C3: every signature value of MerkleSigner::sign splits on "." into exactly
\* 3 segments, each of them non-empty
C3_ThreeNonEmptySegments ==
  \A index \in 0..(total - 1) :
    (last.op = "sign" /\ last.res.ok /\ SignedByLeaf(index))
      => LET parts == split(that.proof[1].value.text)
         IN  Len(parts) = 3 /\ \A k \in 1..Len(parts) : parts[k] # <<>>

\* C4: after Verifier::verify_signature returns, with Ok or with Err, the
\* object is as it was before the call and its signature value is visible
C4_VerifyReadOnly ==
  [][(last'.op = "verify" /\ last'.calls = <<"verify_signature">>)
       => (that' = that /\ (that'.proof # <<>> => ~that'.proof[1].hidden))]_vars

\* C5: when Signer::create_signature returns an error the proof of the object
\* is what it was before the call; when it returns Ok the proof holds the
\* suite name, the method and a signature value
C5_SignAllOrNothing ==
  [][(last'.op = "sign" /\ last'.calls = <<"create_signature">>)
       => IF last'.res.ok
            THEN /\ that'.proof # <<>>
                 /\ that'.proof[1].type_ \in {JcsName, MerkleName}
                 /\ that'.proof[1].method = last'.method
                 /\ that'.proof[1].value.kind = "Signature"
            ELSE that'.proof = that.proof]_vars

\* C6 as stated: the message that sign canonicalizes excludes any proof
\* field of the object
C6_MessageExcludesProof ==
  (last.op = "sign" /\ last.calls = <<"create_signature">> /\ last.msg # <<>>)
    => last.msg = to_jcs([that EXCEPT !.proof = <<>>]).val

\* C6 as amended: the message that sign canonicalizes holds the data and a
\* proof with the suite name and the method but no signature value, whatever
\* proof the object carried before, and verify_signature canonicalizes the
\* same bytes
C6_MessageExcludesValue ==
  /\ (last.op = "sign" /\ last.calls = <<"create_signature">> /\ last.msg # <<>>)
       => last.msg =
            to_jcs([that EXCEPT !.proof =
                      <<Signature(that.proof[1].type_, that.proof[1].method)>>]).val
  /\ (last.op = "verify" /\ last.res.ok /\ SameProof) => last.msg = signed[1].msg

C6_Witness ==
  /\ last.op = "sign"
  /\ last.res.ok
  /\ last.over
  /\ last.msg # <<>>
  /\ last.msg = signed[1].msg

\* the key data of method `fragment` decodes to less than 2 bytes or to bytes
\* that start with an unrecognized (signature tag, digest tag) pair
MalformedMerkleKey(fragment) ==
  /\ fragment \in DOMAIN document
  /\ document[fragment].key_type = "MerkleKeyCollection2021"
  /\ LET bytes == try_decode(document[fragment].key_data)
     IN  /\ bytes.ok
         /\ IF Len(bytes.val) < 2 THEN TRUE
            ELSE \/ bytes.val[1] # TagEd25519
                 \/ bytes.val[2] \notin {TagSha256, TagBlake2b256}

\* C7: for a MerkleKeyCollection2021 method with such key data, sign and
\* verify return an error before any signature suite runs, and the object is
\* left unchanged
C7_FailFast ==
  [][(last'.op \in {"sign", "verify"} /\ MalformedMerkleKey(last'.method))
       => /\ ~last'.res.ok
          /\ last'.calls = <<>>
          /\ last'.msg = <<>>
          /\ that' = that]_vars

C7_Witness ==
  /\ last.op = "verify"
  /\ that.proof # <<>>
  /\ that.proof[1].value.kind = "Signature"
  /\ last.method = "#bad-digest"
  /\ ~last.res.ok

\* largest tag byte tried
MaxTag == 3

\* C8: for both supported combinations and every root, extract_tags of the
\* encoded key returns the tags of the combination and the rest of the bytes
\* is the root; an unsupported pair of tag bytes yields InvalidKeyFormat
C8_TagRoundTrip ==
  /\ LET bytes == try_decode(document["#key-collection"].key_data)
     IN  /\ bytes.ok
         /\ extract_tags(bytes.val) = OkVal(<<"Ed25519", digest>>)
         /\ SubSeq(bytes.val, 3, Len(bytes.val)) = merkle_root(digest, total)
  /\ \A D \in Digests, count \in 1..MaxKeys :
       LET root == merkle_root(D, count)
           key  == encode_merkle_key(D, root)
       IN  /\ extract_tags(key) = OkVal(<<"Ed25519", D>>)
           /\ SubSeq(key, 3, Len(key)) = root
  /\ \A s \in 0..MaxTag, d \in 0..MaxTag :
       (s # TagEd25519 \/ d \notin {TagSha256, TagBlake2b256})
         => extract_tags(<<s, d>> \o merkle_root(digest, total)) = Err("InvalidKeyFormat")
  /\ (last.op \in {"sign", "verify"} /\ MalformedMerkleKey(last.method))
       => last.res = Err("InvalidKeyFormat")

C8_Witness ==
  /\ digest = "BLAKE2B_256"
  /\ last.op = "verify"
  /\ last.method = "#key-collection"
  /\ last.res.ok

\* the ways a verification of a signed object of the collection fails: the
\* proof does not lead to the root, the leaf is revoked, the Ed25519
\* signature does not fit the data or the public key
RootMismatch ==
  /\ total > 1
  /\ signed[1].private = CollectionPrivate(0)
  /\ signed[1].merkle_key =
       MerkleKey(CollectionPublic(0), merkle_proof(digest, total, total - 1))

RevokedLeaf == \E index \in 0..(total - 1) : SignedByLeaf(index) /\ Revoked(index)

InvalidEd25519 ==
  \/ \E index \in 0..(total - 1) : SignedByLeaf(index) /\ ~SameData
  \/ /\ signed[1].private = PairPrivate
     /\ signed[1].merkle_key =
          MerkleKey(CollectionPublic(0), merkle_proof(digest, total, 0))

\* C9: a verification that fails for one of these three reasons returns the
\* same error value whichever of them it is
C9_OneFailure ==
  (/\ last.op = "verify"
   /\ ~last.res.ok
   /\ SameProof
   /\ signed[1].that.proof[1].method = "#key-collection"
   /\ (RootMismatch \/ RevokedLeaf \/ InvalidEd25519))
    => last.res = Err("InvalidSignature")

C9_Witness ==
  /\ last.op = "verify"
  /\ ~last.res.ok
  /\ SameProof
  /\ SameData
  /\ RevokedLeaf

\* the text does not split on "." into exactly 3 parts, or a part holds a
\* character outside the base58 alphabet
MalformedText(text) ==
  \/ Len(split(text)) # 3
  \/ \E i \in 1..Len(text) : text[i] # "." /\ ~IsB58(text[i])

\* C10: Merkle verification of such a signature text returns
\* InvalidProofValue
C10_MalformedValue ==
  (/\ last.op = "verify"
   /\ last.method = "#key-collection"
   /\ that.proof # <<>>
   /\ that.proof[1].type_ = MerkleName
   /\ that.proof[1].value.kind = "Signature"
   /\ MalformedText(that.proof[1].value.text))
    => last.res = Err("InvalidProofValue")

C10_Witness ==
  /\ last.op = "verify"
  /\ last.method = "#key-collection"
  /\ that.proof # <<>>
  /\ that.proof[1].value.kind = "Signature"
  /\ Len(split(that.proof[1].value.text)) = 3
  /\ MalformedText(that.proof[1].value.text)
  /\ last.res = Err("InvalidProofValue")

\* C11: for every collection size and every index, the proof of merkle_proof(i)
\* with public key i recomputes merkle_root(), so its verification is true
C11_ProofRoundTrip ==
  (tree # <<>> /\ tree[1].result # <<>> /\ tree[1].key = tree[1].index)
    => tree[1].result[1]

C11_Witness ==
  /\ tree # <<>>
  /\ tree[1].publics = CollectionPublics(3)
  /\ tree[1].index = 2
  /\ tree[1].key = 2
  /\ tree[1].result = <<TRUE>>

\* C12: the root of a tree with an odd number of leaves is the root of the
\* tree that has the last leaf once more, and the proof of the last leaf
\* verifies against that root
C12_OddLeafDuplication ==
  (tree # <<>> /\ Len(tree[1].publics) % 2 = 1 /\ Len(tree[1].publics) > 1)
    => LET t       == tree[1]
           n       == Len(t.publics)
           padded  == t.publics \o <<t.publics[n]>>
           root    == RootOfLevel(t.digest, Leaves(t.digest, padded))
       IN  /\ t.root = root
           /\ (t.proof # <<>> /\ t.index = n - 1)
                => proof_verify(t.proof[1], t.publics[n], root)

C12_Witness ==
  /\ tree # <<>>
  /\ tree[1].publics = CollectionPublics(3)
  /\ tree[1].index = 2
  /\ tree[1].key = 2
  /\ tree[1].result = <<TRUE>>
  /\ tree[1].root =
       RootOfLevel(tree[1].digest,
                   Leaves(tree[1].digest, CollectionPublics(3) \o <<CollectionPublic(2)>>))
  /\ tree[1].proof[1].nodes # <<>>

\* C13: JcsEd25519 verify of a signature of sign is Ok for the signed data and
\* the public key of the signing pair; it is Err for other data, for the
\* public key of another pair and for an altered signature text, and
\* InvalidProofValue for a value that is not the Signature variant
C13_JcsAgreement ==
  (jcs # <<>> /\ jcs[1].check # <<>>)
    => LET c == jcs[1].check[1]
       IN  /\ c.res.ok <=> (/\ c.data = jcs[1].data
                            /\ c.public = PublicOf(jcs[1].private)
                            /\ c.value = jcs[1].value)
           /\ c.value.kind # "Signature" => c.res = Err("InvalidProofValue")

C13_Witness ==
  /\ jcs # <<>>
  /\ jcs[1].check # <<>>
  /\ jcs[1].check[1].res.ok
  /\ jcs[1].check[1].kind = 1
  /\ jcs[1].check[1].data = jcs[1].data
  /\ jcs[1].private = CollectionPrivate(1)

\* the last successful sign used the Ed25519 method with the private key of
\* its pair
SignedByPair ==
  /\ signed # <<>>
  /\ signed[1].that.proof[1].method = "#key-1"
  /\ signed[1].private = PairPrivate

\* C14: DocumentVerifier::verify returns Err for an object without proof, and
\* Ok for an object signed through DocumentSigner::sign with the matching
\* private key, for the Ed25519 method and for the collection method
C14_VerifyNeedsSignature ==
  /\ (last.op = "verify" /\ that.proof = <<>>) => ~last.res.ok
  /\ (/\ last.op = "verify"
      /\ SameProof
      /\ SameData
      /\ (SignedByPair \/ \E index \in 0..(total - 1) : SignedByLeaf(index)))
       => last.res.ok

C14_Witness ==
  /\ last.op = "verify"
  /\ last.method = "#key-1"
  /\ SameProof
  /\ SameData
  /\ SignedByPair
  /\ last.res.ok

\* C15: RunnercDID::parse returns an error value, and does not panic, for a
\* DID whose method id has more than two segments, whatever the last segment
\* decodes to
C15_ParseRejectsManySegments ==
  (did # <<>> /\ Len(did[1].networks) >= 2)
    => (~did[1].res.ok /\ did[1].res.err # "panic")

\* the tags that are the base58 text of 32 bytes
ValidTags == {Repeat("1", 32), Repeat("1", 31) \o <<"2">>}

\* network names other than the default that are valid
OtherNetworks == {<<"d", "e", "v">>, <<"c", "u", "s", "t", "o", "m">>}

Joined == url # <<>> /\ url[1].joined # <<>>

JoinedOk == Joined /\ url[1].joined[1].res.ok

StartsWith(ch) == Joined /\ url[1].joined[1].segment # <<>> /\ url[1].joined[1].segment[1] = ch

SomeOf(part) == IF part = <<>> THEN <<>> ELSE <<part>>

\* C17 as stated: a successful join of a segment starting with "/" leaves
\* neither query nor fragment, and one of a segment starting with "?" leaves no
\* fragment
C17_JoinClears ==
  JoinedOk =>
    LET j == url[1].joined[1]
    IN  /\ StartsWith("/") => j.res.val.query = <<>> /\ j.res.val.fragment = <<>>
        /\ StartsWith("?") => j.res.val.fragment = <<>>

\* C17: a join of a segment starting with "/" sets the path to the segment's
\* path and query and fragment to those of the segment (none where the segment
\* has none); one of a segment starting with "?" keeps the path, sets the query
\* and sets the fragment to that of the segment (none if it has none); one of a
\* segment starting with "#" sets only the fragment; any other segment is an
\* InvalidPath error; a successful join leaves the DID unchanged
C17_JoinOverwrites ==
  Joined =>
    LET j == url[1].joined[1]
    IN  /\ (j.res.ok /\ StartsWith("/")) =>
             /\ j.res.val.path = <<j.path>>
             /\ j.res.val.query = SomeOf(j.query)
             /\ j.res.val.fragment = SomeOf(j.fragment)
        /\ (j.res.ok /\ StartsWith("?")) =>
             /\ j.res.val.path = j.before.path
             /\ j.res.val.query = <<j.query>>
             /\ j.res.val.fragment = SomeOf(j.fragment)
        /\ (j.res.ok /\ StartsWith("#")) =>
             /\ j.res.val.path = j.before.path
             /\ j.res.val.query = j.before.query
             /\ j.res.val.fragment = <<j.segment>>
        /\ (~StartsWith("/") /\ ~StartsWith("?") /\ ~StartsWith("#")) =>
             j.res = Err("InvalidPath")
        /\ j.res.ok => j.res.val.did = j.before.did

\* a URL with path, query and fragment was joined with a segment of a query and
\* a fragment, and with a segment of a fragment only
C17_Witness ==
  /\ JoinedOk
  /\ url[1].joined[1].before.path # <<>>
  /\ url[1].joined[1].before.query # <<>>
  /\ url[1].joined[1].before.fragment # <<>>
  /\ url[1].joined[1].path = <<>>
  /\ url[1].joined[1].query # <<>>
  /\ url[1].joined[1].fragment # <<>>
  /\ url[1].joined[1].res.val.fragment # url[1].joined[1].before.fragment

\* the last operation on the document
DocOp(op) == rdoc # <<>> /\ rdoc[1].last # <<>> /\ rdoc[1].last[1].op = op

DocOk(op) == DocOp(op) /\ rdoc[1].last[1].res.ok

\* the method `query` of `doc` has a capability invocation relationship and
\* the type Ed25519VerificationKey2018
InvokesEd25519(doc, query) ==
  /\ query \in DOMAIN doc.methods
  /\ doc.methods[query].scope = "CapabilityInvocation"
  /\ doc.methods[query].key_type = "Ed25519VerificationKey2018"

\* the proof of `doc` is an Ed25519 signature, by the key of method `query` of
\* `by`, of the document with the value of its proof left out
SignatureVerifies(doc, by, query) ==
  /\ doc.proof # <<>>
  /\ doc.proof[1].value.kind = "Signature"
  /\ query \in DOMAIN by.methods
  /\ decode_b58(by.methods[query].key_data.text).ok
  /\ decode_b58(doc.proof[1].value.text).ok
  /\ decode_b58(doc.proof[1].value.text).val
       = decode_b58(by.methods[query].key_data.text).val
           \o <<DocumentCode(doc), 99, NameCode(doc.proof[1].type_),
                FragmentCode(doc.proof[1].method)>>

\* C19: sign_self returns Ok only if the queried method has a capability
\* invocation relationship and type Ed25519VerificationKey2018;
\* verify_document(signed, signer) returns Ok only if the method named in the
\* proof of signed is in signer with a capability invocation relationship and
\* type Ed25519VerificationKey2018 and the signature verifies; both reject a
\* MerkleKeyCollection2021 method
C19_CapabilityInvocationEd25519 ==
  /\ DocOk("sign_self") => InvokesEd25519(rdoc[1].last[1].before, rdoc[1].last[1].query)
  /\ DocOk("verify_document") =>
       /\ rdoc[1].last[1].before.proof # <<>>
       /\ InvokesEd25519(rdoc[1].last[1].signer, rdoc[1].last[1].before.proof[1].method)
       /\ SignatureVerifies(rdoc[1].last[1].before, rdoc[1].last[1].signer,
                            rdoc[1].last[1].before.proof[1].method)
  /\ (/\ DocOp("sign_self")
      /\ rdoc[1].last[1].query \in DOMAIN rdoc[1].last[1].before.methods
      /\ rdoc[1].last[1].before.methods[rdoc[1].last[1].query].key_type
           = "MerkleKeyCollection2021") => ~rdoc[1].last[1].res.ok
  /\ (/\ DocOp("verify_document")
      /\ rdoc[1].last[1].before.proof # <<>>
      /\ rdoc[1].last[1].before.proof[1].method \in DOMAIN rdoc[1].last[1].signer.methods
      /\ rdoc[1].last[1].signer.methods[rdoc[1].last[1].before.proof[1].method].key_type
           = "MerkleKeyCollection2021") => ~rdoc[1].last[1].res.ok

\* a document that has an authentication method and a key collection was
\* signed by another document's key, and verify_document accepted it for that
\* other document
C19_Witness ==
  /\ DocOk("verify_document")
  /\ rdoc[1].last[1].signer = OtherDocument
  /\ {"#auth", "#key-collection"} \subseteq DOMAIN rdoc[1].doc.methods

\* C20: verify_root_document returns Ok only if the previous message id is
\* null, the DID tag is the base58 BLAKE2b-256 digest of the public key of the
\* method named in the proof, and the self-signature verifies
C20_RootDocument ==
  DocOk("verify_root_document") =>
    LET doc == rdoc[1].last[1].before
    IN  /\ doc.previous_message_id = <<>>
        /\ doc.proof # <<>>
        /\ doc.proof[1].method \in DOMAIN doc.methods
        /\ doc.tag = encode_b58(digest_of("BLAKE2B_256",
                                          decode_b58(doc.methods[doc.proof[1].method].key_data.text).val))
        /\ InvokesEd25519(doc, doc.proof[1].method)
        /\ SignatureVerifies(doc, doc, doc.proof[1].method)

\* a document with a second signing method was accepted as a root document
C20_Witness ==
  /\ DocOk("verify_root_document")
  /\ "#sign-1" \in DOMAIN rdoc[1].doc.methods

\* the diff at hand carries a signature of the diff, by the key of a
\* capability invocation Ed25519 method of `doc`
DiffSigned(doc, diff) ==
  /\ diff.proof # <<>>
  /\ InvokesEd25519(doc, diff.proof[1].method)
  /\ diff.proof[1].value.kind = "Signature"
  /\ decode_b58(diff.proof[1].value.text).ok
  /\ decode_b58(diff.proof[1].value.text).val
       = decode_b58(doc.methods[diff.proof[1].method].key_data.text).val
           \o <<DiffCode(diff), 99, NameCode(diff.proof[1].type_),
                FragmentCode(diff.proof[1].method)>>

\* C18: if the signature of the diff does not verify or the merge of the diff
\* fails, merge returns Err and leaves the document as it was; otherwise it
\* returns Ok and the document is the merged document
C18_MergeAllOrNothing ==
  DocOp("merge") =>
    LET before == rdoc[1].last[1].before
        diff   == rdoc[1].diff[1]
    IN  IF DiffSigned(before, diff) /\ diff.diff.wellformed
          THEN /\ rdoc[1].last[1].res.ok
               /\ rdoc[1].doc = [before EXCEPT !.properties = diff.diff.properties]
          ELSE /\ ~rdoc[1].last[1].res.ok
               /\ rdoc[1].doc = before

\* a merge changed the document
C18_Witness ==
  /\ DocOk("merge")
  /\ rdoc[1].doc # rdoc[1].last[1].before

\* a malformed diff with a good signature was given to merge
C18_WitnessMalformed ==
  /\ DocOp("merge")
  /\ DiffSigned(rdoc[1].last[1].before, rdoc[1].diff[1])
  /\ ~rdoc[1].diff[1].diff.wellformed

\* the default number of attempts of publish_json_with_retry
DefaultMaxAttempts == 40

\* C21: publish_json_with_retry returns an error only after the last of its
\* max_attempts (default 40) attempts to publish has failed
C21_RetryUntilLastAttempt ==
  (/\ client # <<>>
   /\ client[1].call # <<>>
   /\ client[1].call[1].pc = "done"
   /\ client[1].call[1].res.err = "DIDNotFound") =>
    client[1].call[1].attempts
      = (IF client[1].call[1].max_attempts = <<>> THEN DefaultMaxAttempts
         ELSE client[1].call[1].max_attempts[1])

\* both callers have returned
BothReturned == shared # <<>> /\ \A p \in Callers : shared[1].pc[p] = "done"

\* C22: when two verify_signature calls on the same validly signed object have
\* both returned, both have returned Ok, as each does alone, and the signature
\* value of the object is visible
C22_ConcurrentVerify ==
  (BothReturned /\ verify_signature("Jcs", shared[1].first, shared[1].public).res.ok) =>
    /\ \A p \in Callers : shared[1].res[p].ok
    /\ ~shared[1].object.proof[1].hidden
====
